---- MODULE Spec2Model ----
(***************************************************************************)
(* ProjectMAPPER (src/_ProjectMAPPER.py): the selection-driven traversal   *)
(* engine.  A background directory scan with a cooperative timeout, the   *)
(* per-directory explicit selection states, their persistence, and the    *)
(* three consumers (tree export, content dump, backup) that filter the    *)
(* live filesystem by effective selection and filename exclusion.         *)
(*                                                                         *)
(* Python strings are tuples of one-character strings, so that prefix,    *)
(* suffix, lower-casing and ordering are computed and not assumed.  A     *)
(* path is the tuple of its parts (pathlib's Path.parts); an absolute     *)
(* path starts with the anchor SEP.  The modelled tree has no symbolic    *)
(* links and no ".." parts, and the _logs output directory of the         *)
(* application is kept outside the modelled tree.                          *)
(***************************************************************************)
EXTENDS Integers, Sequences, FiniteSets, TLC

VARIABLES
    folder_tree_item_states,            \* dict path -> S_CHECKED / S_UNCHECKED
    dynamic_global_excluded_filenames,  \* set of user patterns
    config_file,                        \* the JSON config of the project root
    gui_queue,                          \* callbacks posted to the GUI thread
    scan_timeout_result_queue,          \* answers of the timeout messagebox
    worker,                             \* the scan worker threads
    scans_started,                      \* number of scan threads started
    tree,                               \* items of the ttk.Treeview
    tree_item_glyph,                    \* the glyph in each item's text
    now,                                \* time.time()
    dir_status,                         \* what iterdir() does on each directory
    file_status,                        \* what reading each file does
    config_perm,                        \* what open() of the config file allows
    log_box,                            \* warnings scheduled for the log
    selected_root_var,                  \* the content of the project root entry
    gui_pc,                             \* where the GUI thread is in a handler
    action_pc,                          \* the export/backup worker threads
    last_output                         \* artifact of the last export/backup

vars == <<folder_tree_item_states, dynamic_global_excluded_filenames,
          config_file, gui_queue, scan_timeout_result_queue, worker,
          scans_started, tree, tree_item_glyph, now, dir_status,
          file_status, config_perm, log_box, selected_root_var, gui_pc,
          action_pc, last_output>>

---------------------------------------------------------------------------
(* Bounds of the model.                                                    *)

MaxScans == 2
MaxActions == 2
MaxTime == 66
TickStep == 11

\* Time stops passing for two overlapping scans at this moment.
OverlapTime == 22

(* Program constants.                                                      *)

MAX_SCAN_TIME_SECONDS == 20

S_CHECKED == "checked"
S_UNCHECKED == "unchecked"

---------------------------------------------------------------------------
(* Strings.                                                                *)

UpperCase ==
    <<"A", "B", "C", "D", "E", "F", "G", "H", "I", "J", "K", "L", "M",
      "N", "O", "P", "Q", "R", "S", "T", "U", "V", "W", "X", "Y", "Z">>

LowerCase ==
    <<"a", "b", "c", "d", "e", "f", "g", "h", "i", "j", "k", "l", "m",
      "n", "o", "p", "q", "r", "s", "t", "u", "v", "w", "x", "y", "z">>

\* The characters in code point order.
Alphabet == <<"*", "-", ".", "/">> \o UpperCase \o <<"_">> \o LowerCase

Ord(c) == CHOOSE i \in 1..Len(Alphabet) : Alphabet[i] = c

char_lower(c) ==
    IF \E i \in 1..Len(UpperCase) : UpperCase[i] = c
    THEN LowerCase[CHOOSE i \in 1..Len(UpperCase) : UpperCase[i] = c]
    ELSE c

\* str.lower()
str_lower(s) == [i \in 1..Len(s) |-> char_lower(s[i])]

\* a < b on Python strings: lexicographic by code point.
str_less(a, b) ==
    \E i \in 1..(Len(a) + 1) :
        /\ i <= Len(b)
        /\ \A j \in 1..(i - 1) : a[j] = b[j]
        /\ \/ i = Len(a) + 1
           \/ i <= Len(a) /\ Ord(a[i]) < Ord(b[i])

\* str.startswith / str.endswith
startswith(s, prefix) ==
    /\ Len(prefix) <= Len(s)
    /\ SubSeq(s, 1, Len(prefix)) = prefix

endswith(s, suffix) ==
    /\ Len(suffix) <= Len(s)
    /\ SubSeq(s, Len(s) - Len(suffix) + 1, Len(s)) = suffix

Range(f) == {f[x] : x \in DOMAIN f}

\* A variant of the scan's sort that compares the names as they are
\* written, upper case before lower case.
RECURSIVE sorted_by_name(_)
sorted_by_name(S) ==
    IF S = {} THEN <<>>
    ELSE LET m == CHOOSE x \in S : \A y \in S \ {x} :
                      str_less(x[Len(x)], y[Len(y)])
         IN <<m>> \o sorted_by_name(S \ {m})

\* sorted(S, key=lambda x: x.name.lower()): S has no two elements with the
\* same key.
RECURSIVE sorted_by_lower(_)
sorted_by_lower(S) ==
    IF S = {} THEN <<>>
    ELSE LET m == CHOOSE x \in S : \A y \in S \ {x} :
                      str_less(str_lower(x[Len(x)]), str_lower(y[Len(y)]))
         IN <<m>> \o sorted_by_lower(S \ {m})

RECURSIVE sorted_strings(_)
sorted_strings(S) ==
    IF S = {} THEN <<>>
    ELSE LET m == CHOOSE x \in S : \A y \in S \ {x} : str_less(x, y)
         IN <<m>> \o sorted_strings(S \ {m})

---------------------------------------------------------------------------
(* Dictionaries.                                                           *)

EmptyDict == [k \in {} |-> S_CHECKED]

dict_put(d, k, v) == [x \in (DOMAIN d) \cup {k} |-> IF x = k THEN v ELSE d[x]]

dict_get(d, k, default) == IF k \in DOMAIN d THEN d[k] ELSE default

---------------------------------------------------------------------------
(* Paths.                                                                  *)

SEP == <<"/">>

is_absolute(p) == Len(p) > 0 /\ p[1] = SEP

path_name(p) == p[Len(p)]

\* Path.parent: the anchor is its own parent.
path_parent(p) == IF Len(p) > 1 THEN SubSeq(p, 1, Len(p) - 1) ELSE p

is_relative_to(p, other) ==
    /\ Len(other) <= Len(p)
    /\ SubSeq(p, 1, Len(other)) = other

\* Path.relative_to, where is_relative_to holds; the root itself gives ".",
\* the empty tuple of parts.
relative_to(p, other) == SubSeq(p, Len(other) + 1, Len(p))

\* Path.joinpath: an absolute argument replaces the base.
joinpath(base, rel) == IF is_absolute(rel) THEN rel ELSE base \o rel

---------------------------------------------------------------------------
(* The filesystem the model runs on.                                       *)

n_proj == <<"p", "r", "o", "j">>
n_src == <<"s", "r", "c">>
n_vendor == <<"v", "e", "n", "d", "o", "r">>
n_Docs == <<"D", "o", "c", "s">>
n_build == <<"b", "u", "i", "l", "d">>
n_other == <<"o", "t", "h", "e", "r">>

f_main_py == <<"m", "a", "i", "n", ".", "p", "y">>
f_mod_pyc == <<"m", "o", "d", ".", "p", "y", "c">>
f_logo_png == <<"l", "o", "g", "o", ".", "p", "n", "g">>
f_lib_py == <<"l", "i", "b", ".", "p", "y">>
f_guide_md == <<"g", "u", "i", "d", "e", ".", "m", "d">>
f_out_py == <<"o", "u", "t", ".", "p", "y">>
f_notes_txt == <<"n", "o", "t", "e", "s", ".", "t", "x", "t">>

ProjRoot == <<SEP, n_proj>>
d_src == <<SEP, n_proj, n_src>>
d_vendor == <<SEP, n_proj, n_src, n_vendor>>
d_Docs == <<SEP, n_proj, n_Docs>>
d_build == <<SEP, n_proj, n_build>>
d_other == <<SEP, n_other>>

\* The directories under the project root, and one outside it.
FS_DIRS == {ProjRoot, d_src, d_vendor, d_Docs, d_build}

\* A second project, an empty directory with a long name.
n_long_project ==
    <<"m", "y", "-", "a", "w", "e", "s", "o", "m", "e", "-", "p", "r", "o",
      "j", "e", "c", "t", "-", "b", "a", "c", "k", "e", "n", "d">>
LongRoot == <<SEP, n_long_project>>

AllDirs == FS_DIRS \cup {d_other, LongRoot}

FS_FILES ==
    {ProjRoot \o <<f_notes_txt>>,
     d_src \o <<f_main_py>>, d_src \o <<f_mod_pyc>>, d_src \o <<f_logo_png>>,
     d_vendor \o <<f_lib_py>>,
     d_Docs \o <<f_guide_md>>,
     d_build \o <<f_out_py>>}

\* Files whose first 1024 bytes hold a zero byte.
FS_NUL_FILES == {}

\* [item for item in current_path.iterdir() if item.is_dir()]
subdirs(d) == {p \in FS_DIRS : Len(p) = Len(d) + 1 /\ path_parent(p) = d}

files_in(d) == {f \in FS_FILES : path_parent(f) = d}

---------------------------------------------------------------------------
(* Exclusion constants and the file classification.                        *)

EXCLUDED_FOLDERS ==
    {<<"n", "o", "d", "e", "_", "m", "o", "d", "u", "l", "e", "s">>,
     <<".", "g", "i", "t">>,
     <<"_", "_", "p", "y", "c", "a", "c", "h", "e", "_", "_">>,
     <<".", "v", "e", "n", "v">>,
     <<".", "m", "y", "p", "y", "_", "c", "a", "c", "h", "e">>,
     <<"_", "l", "o", "g", "s">>,
     <<"d", "i", "s", "t">>,
     <<"b", "u", "i", "l", "d">>,
     <<".", "v", "s", "c", "o", "d", "e">>,
     <<".", "i", "d", "e", "a">>,
     <<"t", "a", "r", "g", "e", "t">>,
     <<"o", "u", "t">>,
     <<"b", "i", "n">>,
     <<"o", "b", "j">>,
     <<"D", "e", "b", "u", "g">>,
     <<"R", "e", "l", "e", "a", "s", "e">>,
     <<"l", "o", "g", "s">>}

PREDEFINED_EXCLUDED_FILENAMES ==
    {<<"p", "a", "c", "k", "a", "g", "e", "-", "l", "o", "c", "k", ".", "j", "s", "o", "n">>,
     <<"y", "a", "r", "n", ".", "l", "o", "c", "k">>,
     <<".", "D", "S", "_", "S", "t", "o", "r", "e">>,
     <<"T", "h", "u", "m", "b", "s", ".", "d", "b">>,
     <<"*", ".", "p", "y", "c">>,
     <<"*", ".", "p", "y", "o">>,
     <<"*", ".", "s", "w", "p">>,
     <<"*", ".", "s", "w", "o">>}

FORCE_BINARY_EXTENSIONS_FOR_DUMP ==
    {<<".", "t", "a", "r", ".", "g", "z">>, <<".", "g", "z">>,
     <<".", "z", "i", "p">>, <<".", "r", "a", "r">>, <<".", "7", "z">>,
     <<".", "b", "z", "2">>, <<".", "x", "z">>, <<".", "t", "g", "z">>,
     <<".", "p", "n", "g">>, <<".", "j", "p", "g">>,
     <<".", "j", "p", "e", "g">>, <<".", "g", "i", "f">>,
     <<".", "b", "m", "p">>, <<".", "i", "c", "o">>,
     <<".", "w", "e", "b", "p">>, <<".", "t", "i", "f">>,
     <<".", "t", "i", "f", "f">>, <<".", "m", "p", "3">>,
     <<".", "w", "a", "v">>, <<".", "o", "g", "g">>,
     <<".", "f", "l", "a", "c">>, <<".", "a", "a", "c">>,
     <<".", "m", "4", "a">>, <<".", "m", "p", "4">>, <<".", "m", "k", "v">>,
     <<".", "a", "v", "i">>, <<".", "m", "o", "v">>,
     <<".", "w", "e", "b", "m">>, <<".", "f", "l", "v">>,
     <<".", "w", "m", "v">>, <<".", "p", "d", "f">>, <<".", "d", "o", "c">>,
     <<".", "d", "o", "c", "x">>, <<".", "x", "l", "s">>,
     <<".", "x", "l", "s", "x">>, <<".", "p", "p", "t">>,
     <<".", "p", "p", "t", "x">>, <<".", "o", "d", "t">>,
     <<".", "o", "d", "s">>, <<".", "o", "d", "p">>, <<".", "e", "x", "e">>,
     <<".", "d", "l", "l">>, <<".", "s", "o">>, <<".", "o">>, <<".", "a">>,
     <<".", "l", "i", "b">>, <<".", "a", "p", "p">>, <<".", "d", "m", "g">>,
     <<".", "d", "e", "b">>, <<".", "r", "p", "m">>, <<".", "d", "b">>,
     <<".", "s", "q", "l", "i", "t", "e">>, <<".", "m", "d", "b">>,
     <<".", "a", "c", "c", "d", "b">>, <<".", "d", "a", "t">>,
     <<".", "i", "d", "x">>, <<".", "p", "i", "c", "k", "l", "e">>,
     <<".", "j", "o", "b", "l", "i", "b">>, <<".", "p", "y", "c">>,
     <<".", "p", "y", "o">>, <<".", "c", "l", "a", "s", "s">>,
     <<".", "j", "a", "r">>, <<".", "w", "a", "s", "m">>,
     <<".", "t", "t", "f">>, <<".", "o", "t", "f">>,
     <<".", "w", "o", "f", "f">>, <<".", "w", "o", "f", "f", "2">>,
     <<".", "i", "s", "o">>, <<".", "i", "m", "g">>, <<".", "b", "i", "n">>,
     <<".", "b", "a", "k">>, <<".", "d", "a", "t", "a">>,
     <<".", "a", "s", "s", "e", "t">>, <<".", "p", "a", "k">>}

\* The patterns the user types into the exclusion entry.
p_star_md == <<"*", ".", "m", "d">>
p_main_py == <<"m", "a", "i", "n", ".", "p", "y">>

DynCandidates == {p_star_md, p_main_py}

\* should_exclude_file over an explicit dynamic set.
\* A variant of the matcher in which a wildcard pattern matches its suffix
\* anywhere in the name.
excluded_by_anywhere(dynamic, filename) ==
    \E pattern \in PREDEFINED_EXCLUDED_FILENAMES \cup dynamic :
        /\ pattern # <<>>
        /\ IF startswith(pattern, <<"*", ".">>)
           THEN \E i \in 1..Len(filename) :
                    endswith(SubSeq(filename, 1, i), Tail(pattern))
           ELSE pattern = filename

excluded_by(dynamic, filename) ==
    \E pattern \in PREDEFINED_EXCLUDED_FILENAMES \cup dynamic :
        /\ pattern # <<>>
        /\ IF startswith(pattern, <<"*", ".">>)
           THEN endswith(filename, Tail(pattern))
           ELSE pattern = filename

should_exclude_file(filename) ==
    excluded_by(dynamic_global_excluded_filenames, filename)

\* str.lstrip('.')
RECURSIVE lstrip_dots(_)
lstrip_dots(s) ==
    IF s # <<>> /\ Head(s) = "." THEN lstrip_dots(Tail(s)) ELSE s

\* "".join(Path.suffixes): the name from its first dot on, leading dots
\* apart; nothing when the name ends with a dot.
joined_suffixes(name) ==
    LET stripped == lstrip_dots(name)
        dots == {i \in 1..Len(stripped) : stripped[i] = "."}
    IN IF endswith(name, <<".">>) \/ dots = {} THEN <<>>
       ELSE SubSeq(stripped, CHOOSE i \in dots : \A j \in dots : i <= j,
                   Len(stripped))

\* open() of the file raises an IOError.
read_fails(file_path) ==
    file_path \in DOMAIN file_status /\ file_status[file_path] # "ok"

\* A file that cannot be read counts as binary.
is_binary(file_path) ==
    \/ str_lower(joined_suffixes(path_name(file_path)))
           \in FORCE_BINARY_EXTENSIONS_FOR_DUMP
    \/ read_fails(file_path)
    \/ file_path \in FS_NUL_FILES

---------------------------------------------------------------------------
(* Effective selection.                                                    *)

NONE == "none"

\* The while loop of is_path_effectively_selected, from p upwards.
RECURSIVE eff_walk_missing_open(_, _, _)
eff_walk_missing_open(states, p, project_root) ==
    LET explicit_state == dict_get(states, p, NONE)
    IN IF explicit_state = S_UNCHECKED THEN FALSE
       ELSE IF p = project_root
            THEN dict_get(states, project_root, S_CHECKED) = S_CHECKED
       ELSE IF path_parent(p) = p THEN FALSE
       ELSE eff_walk_missing_open(states, path_parent(p), project_root)

RECURSIVE eff_walk(_, _, _)
eff_walk(states, p, project_root) ==
    LET explicit_state == dict_get(states, p, NONE)
    IN IF explicit_state = S_UNCHECKED THEN FALSE
       ELSE IF explicit_state = NONE /\ p # project_root THEN FALSE
       ELSE IF p = project_root
            THEN dict_get(states, project_root, S_CHECKED) = S_CHECKED
       ELSE IF path_parent(p) = p THEN FALSE
       ELSE eff_walk(states, path_parent(p), project_root)

effectively_selected_in(states, path_to_check, project_root) ==
    IF project_root \notin AllDirs THEN FALSE
    ELSE IF path_to_check # project_root
            /\ ~is_relative_to(path_to_check, project_root) THEN FALSE
    ELSE eff_walk(states, path_to_check, project_root)

is_path_effectively_selected(path_to_check, project_root) ==
    effectively_selected_in(folder_tree_item_states, path_to_check,
                            project_root)

---------------------------------------------------------------------------
(* The persisted config.                                                   *)

\* What the bytes of the config file are to json.load: a JSON object, text
\* that is no JSON (JSONDecodeError), or bytes that are no UTF-8 text
\* (UnicodeDecodeError).
FORM_OBJECT == "JSON object"
FORM_MALFORMED == "malformed JSON"
FORM_UNDECODABLE == "invalid UTF-8"

\* What open() of the config file allows: reading and writing, reading
\* only, or neither (IOError).
PERM_RW == "rw"
PERM_READ == "r"
PERM_NONE == "none"

NoConfig ==
    [exists |-> FALSE, form |-> FORM_OBJECT, folder_states |-> EmptyDict,
     dynamic_file_exclusions |-> <<>>]

\* A variant that keeps only the directory's name as the key.
config_key_name_only(abs_path, project_root) ==
    IF is_absolute(abs_path) /\ is_absolute(project_root)
       /\ is_relative_to(abs_path, project_root)
       /\ abs_path # project_root
    THEN <<path_name(abs_path)>>
    ELSE abs_path

\* The key save_project_config stores a state under.
config_key(abs_path, project_root) ==
    IF is_absolute(abs_path) /\ is_absolute(project_root)
       /\ is_relative_to(abs_path, project_root)
    THEN relative_to(abs_path, project_root)
    ELSE abs_path

\* The document save_project_config writes.
config_to_save(states, dynamic, project_root) ==
    [exists |-> TRUE,
     form |-> FORM_OBJECT,
     folder_states |->
        [k \in {config_key(a, project_root) : a \in DOMAIN states} |->
            states[CHOOSE a \in DOMAIN states :
                       config_key(a, project_root) = k]],
     dynamic_file_exclusions |-> sorted_strings(dynamic)]

\* The dictionary load_project_config returns for a document.
loaded_abs_folder_states(cfg, project_root) ==
    LET valid == {k \in DOMAIN cfg.folder_states :
                     cfg.folder_states[k] \in {S_CHECKED, S_UNCHECKED}}
    IN [a \in {joinpath(project_root, k) : k \in valid} |->
           cfg.folder_states[CHOOSE k \in valid :
                                 joinpath(project_root, k) = a]]

\* initial_state of a discovered directory p in _scan_recursive.
initial_state(persisted_states, p, project_root) ==
    LET path_str == p
        relative_path_str == relative_to(p, project_root)
    IN IF /\ path_name(p) \in EXCLUDED_FOLDERS
          /\ path_str \notin DOMAIN persisted_states
          /\ relative_path_str \notin DOMAIN persisted_states
       THEN S_UNCHECKED
       ELSE dict_get(persisted_states, path_str,
                     dict_get(persisted_states, relative_path_str, S_CHECKED))

\* root_state in _worker_build_tree_data; the key "." is the empty tuple.
root_initial_state(persisted_states, project_root) ==
    dict_get(persisted_states, project_root,
             dict_get(persisted_states, <<>>, S_CHECKED))

---------------------------------------------------------------------------
(* The tree snapshot and the widget.                                       *)

n_error == <<"e", "r", "r", "o", "r">>
n_timeout_error == <<"t", "i", "m", "e", "o", "u", "t", "_", "e", "r", "r", "o", "r">>
n_scan_error == <<"s", "c", "a", "n", "_", "e", "r", "r", "o", "r">>
n_loading_node == <<"l", "o", "a", "d", "i", "n", "g", "_", "n", "o", "d", "e">>

\* The parent "" of a top-level item.
NO_PARENT == <<>>

\* The entry of a discovered directory: its iid is its path.
dir_entry(parent_iid, path_str) ==
    [parent |-> parent_iid, iid |-> path_str, kind |-> "dir"]

\* iid f"error_{current_path.name}_{parent_iid}"
error_entry(current_path, parent_iid) ==
    [parent |-> parent_iid,
     iid |-> <<n_error, path_name(current_path)>> \o parent_iid,
     kind |-> "error"]

timeout_entry ==
    [parent |-> NO_PARENT, iid |-> <<n_timeout_error>>, kind |-> "timeout"]

scan_error_entry ==
    [parent |-> NO_PARENT, iid |-> <<n_scan_error>>, kind |-> "scan_error"]

loading_entry ==
    [parent |-> NO_PARENT, iid |-> <<n_loading_node>>, kind |-> "loading"]

tree_exists(t, iid) == \E i \in 1..Len(t) : t[i].iid = iid

\* tree.insert for each item of tree_data; a TclError (unknown parent,
\* duplicate iid) skips the item.
RECURSIVE tree_insert_all(_, _)
tree_insert_all(t, items) ==
    IF items = <<>> THEN t
    ELSE LET item == Head(items)
             ok == /\ item.parent = NO_PARENT \/ tree_exists(t, item.parent)
                   /\ ~tree_exists(t, item.iid)
         IN tree_insert_all(IF ok THEN Append(t, item) ELSE t, Tail(items))

tree_delete(t, iid) == SelectSeq(t, LAMBDA e : e.iid # iid)

\* tree.get_children(iid)
get_children(t, iid) == {t[i].iid : i \in {j \in 1..Len(t) : t[j].parent = iid}}

---------------------------------------------------------------------------
(* The projector: refresh_tree_visuals.                                    *)

GLYPH_CHECKED == <<"[", "X", "]">>
GLYPH_UNCHECKED == <<"[", " ", "]">>
GLYPH_TRISTATE == <<"[", "/", "]">>

\* No item shows a glyph.
NoGlyphs == [iid \in {} |-> GLYPH_CHECKED]

\* A variant in which an unchecked parent does not reach its children.
unchecked_for_children_own_state(states, item_id, parent_effectively_unchecked) ==
    dict_get(states, item_id, S_UNCHECKED) = S_UNCHECKED

\* node_is_effectively_unchecked_for_children
unchecked_for_children(states, item_id, parent_effectively_unchecked) ==
    \/ parent_effectively_unchecked
    \/ dict_get(states, item_id, S_UNCHECKED) = S_UNCHECKED

\* A variant of the glyph choice in which a node whose tracked children
\* are all Unchecked is shown as unchecked.
visual_glyph_none_is_unchecked(t, states, item_id, parent_effectively_unchecked) ==
    IF unchecked_for_children(states, item_id, parent_effectively_unchecked)
    THEN GLYPH_UNCHECKED
    ELSE LET relevant == get_children(t, item_id) \cap DOMAIN states
             explicitly_checked == {c \in relevant : states[c] = S_CHECKED}
         IN IF relevant = {} THEN GLYPH_CHECKED
            ELSE IF explicitly_checked = relevant THEN GLYPH_CHECKED
            ELSE IF explicitly_checked = {} THEN GLYPH_UNCHECKED
            ELSE GLYPH_TRISTATE

\* current_visual_glyph of _update_node_visual_recursive.
visual_glyph(t, states, item_id, parent_effectively_unchecked) ==
    IF unchecked_for_children(states, item_id, parent_effectively_unchecked)
    THEN GLYPH_UNCHECKED
    ELSE LET children == get_children(t, item_id)
             relevant == children \cap DOMAIN states
             explicitly_checked == {c \in relevant : states[c] = S_CHECKED}
         IN IF children = {} THEN GLYPH_CHECKED
            ELSE IF relevant = {} THEN GLYPH_CHECKED
            ELSE IF Cardinality(explicitly_checked) = Cardinality(relevant)
            THEN GLYPH_CHECKED
            ELSE GLYPH_TRISTATE

\* _update_node_visual_recursive: the items it rewrites, each with its new
\* glyph.
RECURSIVE update_node_visual_recursive(_, _, _, _)
update_node_visual_recursive(t, states, item_id_to_update, parent_effectively_unchecked) ==
    IF ~tree_exists(t, item_id_to_update) THEN {}
    ELSE {<<item_id_to_update,
            visual_glyph(t, states, item_id_to_update,
                         parent_effectively_unchecked)>>}
         \cup UNION {update_node_visual_recursive(t, states, child_id,
                         unchecked_for_children(states, item_id_to_update,
                                                parent_effectively_unchecked)) :
                        child_id \in get_children(t, item_id_to_update)}

\* refresh_tree_visuals(tree, root_item_id) on the glyphs g.
refresh_tree_visuals(t, states, root_item_id, g) ==
    LET updates == update_node_visual_recursive(t, states, root_item_id, FALSE)
        updated == {u[1] : u \in updates}
    IN [iid \in DOMAIN g \cup updated |->
           IF iid \in updated
           THEN (CHOOSE u \in updates : u[1] = iid)[2]
           ELSE g[iid]]

\* refresh_tree_visuals for each of the items roots, as on_tree_item_click
\* does for the top-level items when the project root is not in the tree.
RECURSIVE refresh_each(_, _, _, _)
refresh_each(t, states, roots, g) ==
    IF roots = {} THEN g
    ELSE LET r == CHOOSE r \in roots : TRUE
         IN refresh_each(t, states, roots \ {r},
                         refresh_tree_visuals(t, states, r, g))

---------------------------------------------------------------------------
(* The scan worker: _worker_build_tree_data.                               *)

IdleWorker ==
    [pc |-> "idle", project_root |-> ProjRoot, start_time |-> 0,
     tree_data |-> <<>>, persisted_states |-> EmptyDict, stack |-> <<>>,
     current_path |-> ProjRoot, outcome |-> "none", asked |-> 0,
     declined |-> FALSE]

Workers == 1..MaxScans

\* The thread has left the try statement with this outcome and snapshot;
\* its other locals are dead.
finished(r, outcome, tree_data) ==
    [IdleWorker EXCEPT !.pc = "done", !.project_root = r.project_root,
                       !.tree_data = tree_data, !.outcome = outcome,
                       !.asked = r.asked, !.declined = r.declined]

\* Return from the calls of _scan_recursive whose for loop is exhausted.
RECURSIVE unwind(_)
unwind(stack) ==
    IF stack # <<>> /\ stack[Len(stack)].rest = <<>>
    THEN unwind(SubSeq(stack, 1, Len(stack) - 1))
    ELSE stack

\* The scan goes on after the body of one call of _scan_recursive: the
\* innermost unfinished for loop takes its next directory p, seeds its
\* state, appends its entry and calls _scan_recursive(p, path_str); with no
\* loop left the scan is complete.
scan_advance(r, states) ==
    LET stack == unwind(r.stack)
    IN IF stack = <<>>
       THEN [r |-> finished(r, "Completed", r.tree_data), states |-> states]
       ELSE LET top == stack[Len(stack)]
                p == Head(top.rest)
            IN [r |-> [r EXCEPT
                        !.stack = [stack EXCEPT ![Len(stack)].rest = Tail(top.rest)],
                        !.tree_data = Append(r.tree_data, dir_entry(top.dir, p)),
                        !.current_path = p,
                        !.pc = "enter"],
                states |-> dict_put(states, p,
                              initial_state(r.persisted_states, p, r.project_root))]

\* A variant in which a failed listing ends the whole scan.
listing_failed_fatal(r, states) ==
    [r |-> finished(r, "Failed", <<scan_error_entry>>), states |-> states]

\* except (PermissionError, FileNotFoundError): the placeholder is appended
\* under current_path and the call returns to its caller's loop.
listing_failed(r, states) ==
    scan_advance(
        [r EXCEPT !.tree_data = Append(r.tree_data,
            error_entry(r.current_path, r.current_path))],
        states)

\* A variant of the abort that hands the snapshot over without a marker.
scan_aborted_no_marker(r) ==
    finished([r EXCEPT !.declined = TRUE], "TimedOutAborted", r.tree_data)

\* except TimeoutError: the abort marker is appended to the entries
\* collected so far.
scan_aborted(r) ==
    finished([r EXCEPT !.declined = TRUE], "TimedOutAborted",
             Append(r.tree_data, timeout_entry))

\* The try block of _scan_recursive(current_path, parent_iid), where
\* parent_iid is the iid of current_path itself.
scan_listing(r, states, status) ==
    IF status = "ok"
    THEN scan_advance(
            [r EXCEPT !.stack = Append(r.stack,
                [dir |-> r.current_path,
                 rest |-> sorted_by_lower(subdirs(r.current_path))])],
            states)
    ELSE IF status = "denied"
    THEN listing_failed(r, states)
    ELSE [r |-> finished(r, "Failed", <<scan_error_entry>>),
          states |-> states]

ask_message(w) == [cb |-> "ask", w |-> w]
populate_message(w) == [cb |-> "populate", w |-> w]

\* start_time = time.time(); tree_data = []; folder_tree_item_states.clear()
WorkerStart(w) ==
    /\ worker[w].pc = "start"
    /\ worker' = [worker EXCEPT ![w].start_time = now, ![w].tree_data = <<>>,
                                ![w].pc = "load"]
    /\ folder_tree_item_states' = EmptyDict
    /\ UNCHANGED <<dynamic_global_excluded_filenames, config_file, gui_queue,
                   scan_timeout_result_queue, scans_started, tree,
                   tree_item_glyph, now, dir_status, file_status, config_perm,
                   log_box, selected_root_var, gui_pc, action_pc,
                   last_output>>

\* load_project_config: dynamic_global_excluded_filenames.clear()
WorkerLoadClear(w) ==
    /\ worker[w].pc = "load"
    /\ dynamic_global_excluded_filenames' = {}
    /\ worker' = [worker EXCEPT ![w].pc = "read"]
    /\ UNCHANGED <<folder_tree_item_states, config_file, gui_queue,
                   scan_timeout_result_queue, scans_started, tree,
                   tree_item_glyph, now, dir_status, file_status, config_perm,
                   log_box, selected_root_var, gui_pc, action_pc,
                   last_output>>

\* load_project_config: the file is read, the states are resolved and the
\* dynamic exclusions updated. An IOError or a JSONDecodeError is caught:
\* the exclusions are cleared and the empty dictionary returned. Any other
\* exception of the read leaves load_project_config and is caught by the
\* worker's `except Exception`, which ends the scan.
WorkerLoadRead(w) ==
    /\ worker[w].pc = "read"
    /\ IF ~config_file.exists
       THEN /\ worker' = [worker EXCEPT ![w].persisted_states = EmptyDict,
                                        ![w].pc = "root"]
            /\ UNCHANGED <<dynamic_global_excluded_filenames, gui_queue>>
       ELSE IF config_perm = PERM_NONE \/ config_file.form = FORM_MALFORMED
       THEN /\ worker' = [worker EXCEPT ![w].persisted_states = EmptyDict,
                                        ![w].pc = "root"]
            /\ dynamic_global_excluded_filenames' = {}
            /\ UNCHANGED gui_queue
       ELSE IF config_file.form = FORM_UNDECODABLE
       THEN /\ worker' = [worker EXCEPT ![w] =
                  finished(worker[w], "Failed", <<scan_error_entry>>)]
            /\ gui_queue' = Append(gui_queue, populate_message(w))
            /\ UNCHANGED dynamic_global_excluded_filenames
       ELSE /\ worker' = [worker EXCEPT
                  ![w].persisted_states =
                      loaded_abs_folder_states(config_file, worker[w].project_root),
                  ![w].pc = "root"]
            /\ dynamic_global_excluded_filenames' =
                  dynamic_global_excluded_filenames
                      \cup Range(config_file.dynamic_file_exclusions)
            /\ UNCHANGED gui_queue
    /\ UNCHANGED <<folder_tree_item_states, config_file,
                   scan_timeout_result_queue, scans_started, tree,
                   tree_item_glyph, now, dir_status, file_status, config_perm,
                   log_box, selected_root_var, gui_pc, action_pc,
                   last_output>>

\* The root's state and entry, then _scan_recursive(project_root, root_path_str).
WorkerSeedRoot(w) ==
    /\ worker[w].pc = "root"
    /\ LET root_path_str == worker[w].project_root
       IN /\ folder_tree_item_states' =
                dict_put(folder_tree_item_states, root_path_str,
                    root_initial_state(worker[w].persisted_states, root_path_str))
          /\ worker' = [worker EXCEPT
                ![w].tree_data = Append(worker[w].tree_data,
                                        dir_entry(NO_PARENT, root_path_str)),
                ![w].current_path = root_path_str,
                ![w].stack = <<>>,
                ![w].pc = "enter"]
    /\ UNCHANGED <<dynamic_global_excluded_filenames, config_file, gui_queue,
                   scan_timeout_result_queue, scans_started, tree,
                   tree_item_glyph, now, dir_status, file_status, config_perm,
                   log_box, selected_root_var, gui_pc, action_pc,
                   last_output>>

\* A variant in which only a completed scan hands its snapshot over.
worker_continues_completed_only(w, res) ==
    /\ worker' = [worker EXCEPT ![w] = res.r]
    /\ folder_tree_item_states' = res.states
    /\ gui_queue' = IF res.r.pc = "done" /\ res.r.outcome = "Completed"
                    THEN Append(gui_queue, populate_message(w))
                    ELSE gui_queue

\* The worker r leaves _scan_recursive's body with result res: the states
\* are written, and a finished scan posts _populate_tree_on_main_thread.
worker_continues(w, res) ==
    /\ worker' = [worker EXCEPT ![w] = res.r]
    /\ folder_tree_item_states' = res.states
    /\ gui_queue' = IF res.r.pc = "done"
                    THEN Append(gui_queue, populate_message(w))
                    ELSE gui_queue

\* One call of _scan_recursive: over budget it posts the request and blocks
\* on scan_timeout_result_queue.get(); else it lists the directory.
WorkerEnter(w) ==
    /\ worker[w].pc = "enter"
    /\ IF now - worker[w].start_time > MAX_SCAN_TIME_SECONDS
       THEN /\ gui_queue' = Append(gui_queue, ask_message(w))
            /\ worker' = [worker EXCEPT ![w].pc = "wait",
                                        ![w].asked = worker[w].asked + 1]
            /\ UNCHANGED folder_tree_item_states
       ELSE worker_continues(w,
                scan_listing(worker[w], folder_tree_item_states,
                             dir_status[worker[w].current_path]))
    /\ UNCHANGED <<dynamic_global_excluded_filenames, config_file,
                   scan_timeout_result_queue, scans_started, tree,
                   tree_item_glyph, now, dir_status, file_status, config_perm,
                   log_box, selected_root_var, gui_pc, action_pc,
                   last_output>>

\* A variant of the wait in which the worker goes on listing when no
\* answer is there yet.
WorkerReceive_without_answer(w) ==
    /\ worker[w].pc = "wait"
    /\ scan_timeout_result_queue' =
          IF scan_timeout_result_queue = <<>> THEN <<>>
          ELSE Tail(scan_timeout_result_queue)
    /\ IF scan_timeout_result_queue = <<>> \/ Head(scan_timeout_result_queue)
       THEN worker_continues(w,
                scan_listing([worker[w] EXCEPT !.start_time = now],
                             folder_tree_item_states,
                             dir_status[worker[w].current_path]))
       ELSE worker_continues(w,
                [r |-> scan_aborted(worker[w]),
                 states |-> folder_tree_item_states])
    /\ UNCHANGED <<dynamic_global_excluded_filenames, config_file,
                   scans_started, tree, tree_item_glyph, now, dir_status,
                   file_status, config_perm, log_box, selected_root_var,
                   gui_pc, action_pc, last_output>>

\* A variant of the wait in which the scan clock keeps running from the
\* start of the scan after the user has chosen to continue.
WorkerReceive_keeps_clock(w) ==
    /\ worker[w].pc = "wait"
    /\ scan_timeout_result_queue # <<>>
    /\ scan_timeout_result_queue' = Tail(scan_timeout_result_queue)
    /\ IF Head(scan_timeout_result_queue)
       THEN worker_continues(w,
                scan_listing(worker[w], folder_tree_item_states,
                             dir_status[worker[w].current_path]))
       ELSE worker_continues(w,
                [r |-> scan_aborted(worker[w]),
                 states |-> folder_tree_item_states])
    /\ UNCHANGED <<dynamic_global_excluded_filenames, config_file,
                   scans_started, tree, tree_item_glyph, now, dir_status,
                   file_status, config_perm, log_box, selected_root_var,
                   gui_pc, action_pc, last_output>>

\* scan_timeout_result_queue.get() returns: False raises TimeoutError, which
\* the worker's except clause turns into the abort marker; True resets the
\* timer and the call goes on to list the directory.
WorkerReceive(w) ==
    /\ worker[w].pc = "wait"
    /\ scan_timeout_result_queue # <<>>
    /\ scan_timeout_result_queue' = Tail(scan_timeout_result_queue)
    /\ IF Head(scan_timeout_result_queue)
       THEN worker_continues(w,
                scan_listing([worker[w] EXCEPT !.start_time = now],
                             folder_tree_item_states,
                             dir_status[worker[w].current_path]))
       ELSE worker_continues(w,
                [r |-> scan_aborted(worker[w]),
                 states |-> folder_tree_item_states])
    /\ UNCHANGED <<dynamic_global_excluded_filenames, config_file,
                   scans_started, tree, tree_item_glyph, now, dir_status,
                   file_status, config_perm, log_box, selected_root_var,
                   gui_pc, action_pc, last_output>>

\* The steps of a scan thread that never waits for the user.
WorkerRun(w) ==
    \/ WorkerStart(w)
    \/ WorkerLoadClear(w)
    \/ WorkerLoadRead(w)
    \/ WorkerSeedRoot(w)
    \/ WorkerEnter(w)

WorkerStep(w) ==
    \/ WorkerRun(w)
    \/ WorkerReceive(w)

---------------------------------------------------------------------------
(* The coordinator: the handlers that run on the GUI thread.               *)

\* The file after save_project_config has run on the given states and
\* patterns: a failed open() is logged and the file stays as it is.
config_after_save(states, dynamic, project_root) ==
    IF config_perm = PERM_RW
    THEN config_to_save(states, dynamic, project_root)
    ELSE config_file

save_project_config(project_root) ==
    config_file' = config_after_save(folder_tree_item_states,
                                     dynamic_global_excluded_filenames,
                                     project_root)

\* The tree is emptied, the loading node shown and the worker thread started.
refresh_folder_tree_threaded(w, selected_root_path) ==
    /\ tree' = <<loading_entry>>
    /\ tree_item_glyph' = NoGlyphs
    /\ worker' = [worker EXCEPT ![w] =
                     [IdleWorker EXCEPT !.pc = "start",
                                        !.project_root = selected_root_path]]

\* <Return>, <FocusOut> or the directory chooser on a valid root: the scan
\* thread is started, and the handler goes on to save_project_config.
validate_and_refresh_project_root ==
    /\ gui_pc = "idle"
    /\ scans_started < MaxScans
    /\ selected_root_var \in AllDirs
    /\ scans_started' = scans_started + 1
    /\ refresh_folder_tree_threaded(scans_started + 1, selected_root_var)
    /\ gui_pc' = "save"
    /\ UNCHANGED <<folder_tree_item_states, dynamic_global_excluded_filenames,
                   config_file, gui_queue, scan_timeout_result_queue, now,
                   dir_status, file_status, config_perm, log_box,
                   selected_root_var, action_pc, last_output>>

\* save_project_config(path_obj), the last statement of the handler.
validate_save ==
    /\ gui_pc = "save"
    /\ save_project_config(selected_root_var)
    /\ gui_pc' = "idle"
    /\ UNCHANGED <<folder_tree_item_states, dynamic_global_excluded_filenames,
                   gui_queue, scan_timeout_result_queue, worker,
                   scans_started, tree, tree_item_glyph, now, dir_status,
                   file_status, config_perm, log_box, selected_root_var,
                   action_pc, last_output>>

\* A variant of the click that recomputes only the rows below the first
\* level, leaving the top-level row as it was.
refresh_after_click_below_root(t, states, g) ==
    [iid \in DOMAIN refresh_tree_visuals(t, states, selected_root_var, g) |->
        IF iid = selected_root_var /\ iid \in DOMAIN g
        THEN g[iid]
        ELSE refresh_tree_visuals(t, states, selected_root_var, g)[iid]]

\* The refresh at the end of on_tree_item_click.
refresh_after_click(t, states, g) ==
    IF tree_exists(t, selected_root_var)
    THEN refresh_tree_visuals(t, states, selected_root_var, g)
    ELSE refresh_each(t, states, get_children(t, NO_PARENT), g)

\* The warning of on_tree_item_click for a row without a tracked state.
LOG_NOT_TRACKED == "not in state tracking"

\* A variant of the click handler that writes the new state to the
\* directory and to every tracked directory under it.
on_tree_item_click_eager(item_id) ==
    /\ gui_pc = "idle"
    /\ tree_exists(tree, item_id)
    /\ IF item_id \notin DOMAIN folder_tree_item_states
       THEN /\ log_box' = log_box \cup {LOG_NOT_TRACKED}
            /\ UNCHANGED <<folder_tree_item_states, tree_item_glyph>>
       ELSE LET new_state == IF folder_tree_item_states[item_id] = S_UNCHECKED
                             THEN S_CHECKED ELSE S_UNCHECKED
            IN /\ folder_tree_item_states' =
                     [d \in DOMAIN folder_tree_item_states |->
                         IF d = item_id \/ is_relative_to(d, item_id)
                         THEN new_state ELSE folder_tree_item_states[d]]
               /\ tree_item_glyph' =
                     refresh_after_click(tree, folder_tree_item_states',
                                         tree_item_glyph)
               /\ UNCHANGED log_box
    /\ UNCHANGED <<dynamic_global_excluded_filenames, config_file, gui_queue,
                   scan_timeout_result_queue, worker, scans_started, tree,
                   now, dir_status, file_status, config_perm,
                   selected_root_var, gui_pc, action_pc, last_output>>

\* A variant of the click handler that starts tracking a row it does not
\* know.
on_tree_item_click_tracks_unknown(item_id) ==
    /\ gui_pc = "idle"
    /\ tree_exists(tree, item_id)
    /\ folder_tree_item_states' =
          IF item_id \notin DOMAIN folder_tree_item_states
          THEN dict_put(folder_tree_item_states, item_id, S_UNCHECKED)
          ELSE [folder_tree_item_states EXCEPT ![item_id] =
                   IF @ = S_UNCHECKED THEN S_CHECKED ELSE S_UNCHECKED]
    /\ tree_item_glyph' =
          refresh_after_click(tree, folder_tree_item_states', tree_item_glyph)
    /\ log_box' = IF item_id \notin DOMAIN folder_tree_item_states
                  THEN log_box \cup {LOG_NOT_TRACKED} ELSE log_box
    /\ UNCHANGED <<dynamic_global_excluded_filenames, config_file, gui_queue,
                   scan_timeout_result_queue, worker, scans_started, tree,
                   now, dir_status, file_status, config_perm,
                   selected_root_var, gui_pc, action_pc, last_output>>

\* A click on the row item_id; a row without a tracked state is ignored.
on_tree_item_click(item_id) ==
    /\ gui_pc = "idle"
    /\ tree_exists(tree, item_id)
    /\ IF item_id \notin DOMAIN folder_tree_item_states
       THEN /\ log_box' = log_box \cup {LOG_NOT_TRACKED}
            /\ UNCHANGED <<folder_tree_item_states, tree_item_glyph>>
       ELSE /\ folder_tree_item_states' =
                  [folder_tree_item_states EXCEPT ![item_id] =
                      IF @ = S_UNCHECKED THEN S_CHECKED ELSE S_UNCHECKED]
            /\ tree_item_glyph' =
                  refresh_after_click(tree, folder_tree_item_states',
                                      tree_item_glyph)
            /\ UNCHANGED log_box
    /\ UNCHANGED <<dynamic_global_excluded_filenames, config_file, gui_queue,
                   scan_timeout_result_queue, worker, scans_started, tree,
                   now, dir_status, file_status, config_perm,
                   selected_root_var, gui_pc, action_pc, last_output>>

add_excluded_filename(filename_pattern) ==
    /\ gui_pc = "idle"
    /\ filename_pattern # <<>>
    /\ IF filename_pattern \notin dynamic_global_excluded_filenames
       THEN /\ dynamic_global_excluded_filenames' =
                  dynamic_global_excluded_filenames \cup {filename_pattern}
            /\ config_file' = config_after_save(folder_tree_item_states,
                                  dynamic_global_excluded_filenames',
                                  selected_root_var)
       ELSE UNCHANGED <<dynamic_global_excluded_filenames, config_file>>
    /\ UNCHANGED <<folder_tree_item_states, gui_queue,
                   scan_timeout_result_queue, worker, scans_started, tree,
                   tree_item_glyph, now, dir_status, file_status, config_perm,
                   log_box, selected_root_var, gui_pc, action_pc,
                   last_output>>

\* "Remove Checked Items" of the exclusions popup.
remove_checked_from_popup(to_remove) ==
    /\ gui_pc = "idle"
    /\ to_remove # {}
    /\ dynamic_global_excluded_filenames' =
           dynamic_global_excluded_filenames \ to_remove
    /\ IF to_remove \cap dynamic_global_excluded_filenames # {}
       THEN config_file' = config_after_save(folder_tree_item_states,
                               dynamic_global_excluded_filenames',
                               selected_root_var)
       ELSE UNCHANGED config_file
    /\ UNCHANGED <<folder_tree_item_states, gui_queue,
                   scan_timeout_result_queue, worker, scans_started, tree,
                   tree_item_glyph, now, dir_status, file_status, config_perm,
                   log_box, selected_root_var, gui_pc, action_pc,
                   last_output>>

\* A variant of the callback that puts no answer when the dialog raises.
show_messagebox_or_give_up(answer) ==
    scan_timeout_result_queue' =
        IF answer = "error" THEN scan_timeout_result_queue
        ELSE Append(scan_timeout_result_queue, answer = "yes")

\* _show_messagebox_and_get_result: the user's answer, or False when the
\* dialog raises.
show_messagebox_and_get_result(answer) ==
    scan_timeout_result_queue' =
        Append(scan_timeout_result_queue, answer = "yes")

populate_tree_on_main_thread(w) ==
    /\ tree' = tree_insert_all(tree_delete(tree, <<n_loading_node>>),
                               worker[w].tree_data)
    /\ tree_item_glyph' =
          refresh_tree_visuals(tree', folder_tree_item_states,
                               worker[w].project_root, tree_item_glyph)

\* process_gui_queue runs the callback at the head of gui_queue.
process_gui_queue ==
    /\ gui_pc = "idle"
    /\ gui_queue # <<>>
    /\ gui_queue' = Tail(gui_queue)
    /\ LET callback == Head(gui_queue)
       IN IF callback.cb = "ask"
          THEN /\ \E answer \in {"yes", "no", "error"} :
                     show_messagebox_and_get_result(answer)
               /\ UNCHANGED <<tree, tree_item_glyph>>
          ELSE /\ populate_tree_on_main_thread(callback.w)
               /\ UNCHANGED scan_timeout_result_queue
    /\ UNCHANGED <<folder_tree_item_states, dynamic_global_excluded_filenames,
                   config_file, worker, scans_started, now, dir_status,
                   file_status, config_perm, log_box, selected_root_var,
                   gui_pc, action_pc, last_output>>

\* Time passes.
Tick ==
    /\ now + TickStep <= MaxTime
    /\ now' = now + TickStep
    /\ UNCHANGED <<folder_tree_item_states, dynamic_global_excluded_filenames,
                   config_file, gui_queue, scan_timeout_result_queue, worker,
                   scans_started, tree, tree_item_glyph, dir_status,
                   file_status, config_perm, log_box, selected_root_var,
                   gui_pc, action_pc, last_output>>

---------------------------------------------------------------------------
(* The three consumers, each a function of the live filesystem, the        *)
(* selection states and the exclusion patterns.                            *)

\* _generate_tree_recursive: the file lines under current_dir.
RECURSIVE generate_tree_recursive(_, _)
generate_tree_recursive(current_dir, selected_root_path) ==
    IF dir_status[current_dir] # "ok" THEN {}
    ELSE {item \in files_in(current_dir) :
              /\ ~should_exclude_file(path_name(item))
              /\ is_path_effectively_selected(path_parent(item),
                                              selected_root_path)}
         \cup UNION {generate_tree_recursive(item, selected_root_path) :
                        item \in {d \in subdirs(current_dir) :
                            is_path_effectively_selected(d, selected_root_path)}}

\* The files build_folder_tree_impl lists.
tree_export_files(selected_root_path) ==
    IF is_path_effectively_selected(selected_root_path, selected_root_path)
    THEN generate_tree_recursive(selected_root_path, selected_root_path)
    ELSE {}

\* The os.walk loop of dump_files_impl from current_scan_dir: the files
\* given a section, content or omission marker.
RECURSIVE dump_walk(_, _)
dump_walk(current_scan_dir, selected_root_path) ==
    IF dir_status[current_scan_dir] # "ok" THEN {}
    ELSE (IF is_path_effectively_selected(current_scan_dir, selected_root_path)
          THEN {file_path \in files_in(current_scan_dir) :
                    ~should_exclude_file(path_name(file_path))}
          ELSE {})
         \cup UNION {dump_walk(d, selected_root_path) :
                        d \in {d \in subdirs(current_scan_dir) :
                            /\ path_name(d) \notin EXCLUDED_FOLDERS
                            /\ is_path_effectively_selected(d, selected_root_path)}}

dump_sections(selected_root_path) ==
    dump_walk(selected_root_path, selected_root_path)

\* A variant of the backup's walk that leaves binary files out.
RECURSIVE backup_walk_skips_binary(_, _)
backup_walk_skips_binary(current_scan_dir, selected_root_path) ==
    IF dir_status[current_scan_dir] # "ok" THEN {}
    ELSE (IF is_path_effectively_selected(current_scan_dir, selected_root_path)
          THEN {file_path \in files_in(current_scan_dir) :
                    /\ ~should_exclude_file(path_name(file_path))
                    /\ ~is_binary(file_path)}
          ELSE {})
         \cup UNION {backup_walk_skips_binary(d, selected_root_path) :
                        d \in {d \in subdirs(current_scan_dir) :
                            is_path_effectively_selected(d, selected_root_path)}}

\* The os.walk loop of backup_project_impl from current_scan_dir.
RECURSIVE backup_walk(_, _)
backup_walk(current_scan_dir, selected_root_path) ==
    IF dir_status[current_scan_dir] # "ok" THEN {}
    ELSE (IF is_path_effectively_selected(current_scan_dir, selected_root_path)
          THEN {file_path \in files_in(current_scan_dir) :
                    ~should_exclude_file(path_name(file_path))}
          ELSE {})
         \cup UNION {backup_walk(d, selected_root_path) :
                        d \in {d \in subdirs(current_scan_dir) :
                            is_path_effectively_selected(d, selected_root_path)}}

\* The walk of backup_project_impl where tar.add may raise: the runs it can
\* take from current_scan_dir, os.walk giving the files and then the
\* directories of a directory in the order of the listing, which is any
\* order. A run is the files added and whether tar.add raised.
RECURSIVE backup_walk_until_error(_, _)
RECURSIVE backup_walk_dirs(_, _, _)
backup_walk_until_error(current_scan_dir, selected_root_path) ==
    IF dir_status[current_scan_dir] # "ok"
    THEN {[added |-> {}, raised |-> FALSE]}
    ELSE LET file_names ==
                 IF is_path_effectively_selected(current_scan_dir,
                                                 selected_root_path)
                 THEN {file_path \in files_in(current_scan_dir) :
                           ~should_exclude_file(path_name(file_path))}
                 ELSE {}
             dir_names ==
                 {d \in subdirs(current_scan_dir) :
                      is_path_effectively_selected(d, selected_root_path)}
         IN IF \E file_path \in file_names : read_fails(file_path)
            THEN {[added |-> before, raised |-> TRUE] :
                     before \in SUBSET {file_path \in file_names :
                                            ~read_fails(file_path)}}
            ELSE backup_walk_dirs(dir_names, file_names, selected_root_path)

\* The directories dir_names are still to walk, added is in the archive.
backup_walk_dirs(dir_names, added, selected_root_path) ==
    IF dir_names = {} THEN {[added |-> added, raised |-> FALSE]}
    ELSE UNION {
           UNION {IF run.raised
                  THEN {[added |-> added \cup run.added, raised |-> TRUE]}
                  ELSE backup_walk_dirs(dir_names \ {d},
                                        added \cup run.added,
                                        selected_root_path) :
                     run \in backup_walk_until_error(d, selected_root_path)} :
           d \in dir_names}

\* The files backup_project_impl adds to the archive.
backup_files(selected_root_path) ==
    IF ~is_path_effectively_selected(selected_root_path, selected_root_path)
    THEN {}
    ELSE backup_walk(selected_root_path, selected_root_path)

\* The artifact of an export or backup: the files it holds (for the dump,
\* the files given a section), the files among them recorded with an
\* omission marker, and whether the artifact is on disk.
NoOutput == [kind |-> "none", files |-> {}, omitted |-> {}, written |-> FALSE]

build_folder_tree_impl ==
    last_output' = [kind |-> "tree",
                    files |-> tree_export_files(selected_root_var),
                    omitted |-> {},
                    written |-> TRUE]

\* The dump is written only when some file's content was dumped.
dump_files_impl ==
    LET sections == dump_sections(selected_root_var)
        files_dumped == {f \in sections : ~is_binary(f)}
    IN last_output' = [kind |-> "dump", files |-> sections,
                       omitted |-> sections \ files_dumped,
                       written |-> files_dumped # {}]

\* An archive without files is removed again.
\* '%Y-%m-%d_%H-%M-%S'
TimestampLen == 19

\* apply_timestamp(f"{selected_root_path.name}_backup.tar.gz"): the stem
\* "<name>_backup.tar", "_", the timestamp and the suffix ".gz".
backup_file_name_len(selected_root_path) ==
    (Len(path_name(selected_root_path)) + Len(<<"_", "b", "a", "c", "k", "u",
                                                "p", ".", "t", "a", "r">>))
        + 1 + TimestampLen + Len(<<".", "g", "z">>)

\* tarfile.open(path, "w:gz") closed without a member: a gzip file of the
\* 10-byte header, the file name without ".gz" and its terminator, the
\* deflated end-of-archive blocks and the 8-byte trailer.
GzipHeaderLen == 10
GzipTrailerLen == 8
DeflatedEmptyTarLen == 27

empty_archive_size(selected_root_path) ==
    GzipHeaderLen
        + (backup_file_name_len(selected_root_path) - Len(<<".", "g", "z">>) + 1)
        + DeflatedEmptyTarLen + GzipTrailerLen

\* st_size < 100
EMPTY_ARCHIVE_LIMIT == 100

\* The archive stays on disk unless no file was added and it is smaller
\* than the limit.
\* tar.add raises on a file that cannot be read: the except clause around
\* the whole walk ends the run, and the archive, left on disk, holds at
\* most what was added before.
backup_project_impl ==
    LET added == backup_files(selected_root_var)
        removed == /\ added = {}
                   /\ empty_archive_size(selected_root_var) < EMPTY_ARCHIVE_LIMIT
    IN IF \A file_path \in added : ~read_fails(file_path)
       THEN last_output' = [kind |-> "backup", files |-> added,
                            omitted |-> {}, written |-> ~removed]
       ELSE \E run \in backup_walk_until_error(selected_root_var,
                                                 selected_root_var) :
               last_output' = [kind |-> "backup", files |-> run.added,
                               omitted |-> {}, written |-> TRUE]

ActionKinds == {"tree", "dump", "backup"}

\* The threads run_threaded_action may have started and not seen end.
ActionThreads == 1..MaxActions

NoActions == [t \in ActionThreads |-> "idle"]

\* A button of the action bar: run_threaded_action(impl, True) starts the
\* thread.
run_threaded_action(kind) ==
    /\ gui_pc = "idle"
    /\ \E t \in ActionThreads : action_pc[t] = "idle"
    /\ LET action_thread ==
               CHOOSE t \in ActionThreads :
                   /\ action_pc[t] = "idle"
                   /\ \A u \in ActionThreads : action_pc[u] = "idle" => t <= u
       IN action_pc' = [action_pc EXCEPT ![action_thread] = kind]
    /\ UNCHANGED <<folder_tree_item_states, dynamic_global_excluded_filenames,
                   config_file, gui_queue, scan_timeout_result_queue, worker,
                   scans_started, tree, tree_item_glyph, now, dir_status,
                   file_status, config_perm, log_box, selected_root_var,
                   gui_pc, last_output>>

\* thread_target_wrapper: target_function_impl()
ActionImpl(t) ==
    /\ action_pc[t] \in ActionKinds
    /\ CASE action_pc[t] = "tree" -> build_folder_tree_impl
         [] action_pc[t] = "dump" -> dump_files_impl
         [] action_pc[t] = "backup" -> backup_project_impl
    /\ action_pc' = [action_pc EXCEPT ![t] = "save"]
    /\ UNCHANGED <<folder_tree_item_states, dynamic_global_excluded_filenames,
                   config_file, gui_queue, scan_timeout_result_queue, worker,
                   scans_started, tree, tree_item_glyph, now, dir_status,
                   file_status, config_perm, log_box, selected_root_var,
                   gui_pc>>

\* thread_target_wrapper: save_project_config after the action.
ActionSave(t) ==
    /\ action_pc[t] = "save"
    /\ save_project_config(selected_root_var)
    /\ action_pc' = [action_pc EXCEPT ![t] = "idle"]
    /\ UNCHANGED <<folder_tree_item_states, dynamic_global_excluded_filenames,
                   gui_queue, scan_timeout_result_queue, worker,
                   scans_started, tree, tree_item_glyph, now, dir_status,
                   file_status, config_perm, log_box, selected_root_var,
                   gui_pc, last_output>>

---------------------------------------------------------------------------
(* Specifications.                                                         *)

\* No scan thread is at work and no snapshot waits to be shown.
ScanQuiet ==
    /\ \A w \in Workers : worker[w].pc \in {"idle", "done"}
    /\ gui_queue = <<>>

InitCommon ==
    /\ folder_tree_item_states = EmptyDict
    /\ dynamic_global_excluded_filenames = {}
    /\ config_file = NoConfig
    /\ gui_queue = <<>>
    /\ scan_timeout_result_queue = <<>>
    /\ worker = [w \in Workers |-> IdleWorker]
    /\ scans_started = 0
    /\ tree = <<>>
    /\ tree_item_glyph = NoGlyphs
    /\ now = 0
    /\ file_status = [f \in FS_FILES |-> "ok"]
    /\ config_perm = PERM_RW
    /\ log_box = {}
    /\ selected_root_var = ProjRoot
    /\ gui_pc = "idle"
    /\ action_pc = NoActions
    /\ last_output = NoOutput

\* The application after construction, on a readable project tree.
Init ==
    /\ InitCommon
    /\ dir_status = [d \in FS_DIRS |-> "ok"]

\* The user is still at work: no export or backup has been asked for.
SessionOpen == action_pc = NoActions /\ last_output = NoOutput

\* Selection, exclusion, persistence and the consumers: scans run one at a
\* time and within the time budget, the user clicks the rows of the scan
\* that is shown, and the session ends with one export or backup.
Next ==
    \/ SessionOpen /\ ScanQuiet /\ validate_and_refresh_project_root
    \/ validate_save
    \/ \E w \in Workers : WorkerRun(w)
    \/ process_gui_queue
    \/ \E i \in 1..Len(tree) :
          SessionOpen /\ ScanQuiet /\ on_tree_item_click(tree[i].iid)
    \/ \E pattern \in DynCandidates :
          SessionOpen /\ add_excluded_filename(pattern)
    \/ \E to_remove \in SUBSET DynCandidates :
          SessionOpen /\ remove_checked_from_popup(to_remove)
    \/ \E kind \in ActionKinds : SessionOpen /\ run_threaded_action(kind)
    \/ \E t \in ActionThreads : ActionImpl(t)
    \/ \E t \in ActionThreads : ActionSave(t)

Spec == Init /\ [][Next]_vars

\* The directories whose listing may fail.
FaultyDirs == {d_src, d_Docs}

InitScan ==
    /\ InitCommon
    /\ dir_status \in {s \in [FS_DIRS -> {"ok", "denied", "oserr"}] :
                          \A d \in FS_DIRS \ FaultyDirs : s[d] = "ok"}

\* The scan protocol: time passes, listings fail, the user answers.
NextScan ==
    \/ ScanQuiet /\ validate_and_refresh_project_root
    \/ validate_save
    \/ \E w \in Workers : WorkerStep(w)
    \/ process_gui_queue
    \/ Tick

SpecScan == InitScan /\ [][NextScan]_vars

---------------------------------------------------------------------------
(* Claims.                                                                 *)

\* A directory that was never scanned.
d_new == <<SEP, n_proj, n_src, n_other>>

\* The paths effective selection is asked about.
CheckedPaths == AllDirs \cup {d_new}

\* The directories from project_root down to p, both included.
chain(p, project_root) ==
    {SubSeq(p, 1, n) : n \in Len(project_root)..Len(p)}

\* The explicit state of d as the spec reads it: a missing entry counts as
\* Unchecked, the root's as Checked.
state_or_default(d, project_root) ==
    IF d \in DOMAIN folder_tree_item_states THEN folder_tree_item_states[d]
    ELSE IF d = project_root THEN S_CHECKED
    ELSE S_UNCHECKED

\* C1: is_path_effectively_selected(P, R) is true exactly when P is R or
\* lies under R and every directory on the chain from R to P has state
\* Checked, a missing entry counting as Unchecked except for R itself,
\* whose missing entry counts as Checked.
C1_EffectiveIffChainChecked ==
    \A R \in AllDirs : \A P \in CheckedPaths :
        is_path_effectively_selected(P, R) <=>
            /\ is_relative_to(P, R)
            /\ \A D \in chain(P, R) : state_or_default(D, R) = S_CHECKED

\* A checked directory under an unchecked one is not selected, while its
\* checked sibling branch is.
C1_Witness ==
    /\ DOMAIN folder_tree_item_states = FS_DIRS
    /\ folder_tree_item_states[ProjRoot] = S_CHECKED
    /\ folder_tree_item_states[d_src] = S_UNCHECKED
    /\ folder_tree_item_states[d_vendor] = S_CHECKED
    /\ folder_tree_item_states[d_Docs] = S_CHECKED
    /\ ~is_path_effectively_selected(d_vendor, ProjRoot)
    /\ is_path_effectively_selected(d_Docs, ProjRoot)

\* C2: a click that sets a tracked directory D to Unchecked changes no
\* other stored state, and right after it neither D nor any path under D is
\* effectively selected, whatever the descendants' own stored states.
C2_UncheckContainsSubtree ==
    [][\A D \in FS_DIRS :
          (/\ D \in DOMAIN folder_tree_item_states
           /\ folder_tree_item_states[D] = S_CHECKED
           /\ on_tree_item_click(D))
          => /\ DOMAIN folder_tree_item_states' = DOMAIN folder_tree_item_states
             /\ \A E \in DOMAIN folder_tree_item_states \ {D} :
                   folder_tree_item_states'[E] = folder_tree_item_states[E]
             /\ folder_tree_item_states'[D] = S_UNCHECKED
             /\ \A P \in CheckedPaths :
                   is_relative_to(P, D)
                   => ~is_path_effectively_selected(P, selected_root_var)'
      ]_vars

\* The root was clicked off while every directory of src and Docs is
\* still stored as Checked.
C2_Witness ==
    /\ DOMAIN folder_tree_item_states = FS_DIRS
    /\ tree_exists(tree, ProjRoot)
    /\ folder_tree_item_states[ProjRoot] = S_UNCHECKED
    /\ folder_tree_item_states[d_src] = S_CHECKED
    /\ folder_tree_item_states[d_vendor] = S_CHECKED
    /\ folder_tree_item_states[d_Docs] = S_CHECKED
    /\ \A P \in FS_DIRS : ~is_path_effectively_selected(P, selected_root_var)

\* C3: the tree export, the content dump and the backup take the same set
\* of files, in every state.
C3_ConsumersAgree ==
    /\ tree_export_files(selected_root_var) = dump_sections(selected_root_var)
    /\ dump_sections(selected_root_var) = backup_files(selected_root_var)

\* C4: the files a backup run adds are exactly the files under the root
\* whose directory is effectively selected and whose name no exclusion
\* pattern matches; a binary file is added like any other.
C4_BackupExactlySelectedFiles ==
    [][(\E t \in ActionThreads :
            action_pc[t] = "backup" /\ action_pc'[t] = "save")
          => \A F \in FS_FILES :
                F \in last_output'.files <=>
                    /\ is_path_effectively_selected(path_parent(F),
                                                    selected_root_var)
                    /\ ~should_exclude_file(path_name(F))
      ]_vars

\* src Checked, src/vendor Unchecked, Docs Checked: the backup holds the
\* files of src, binary logo.png included, and of Docs, but neither
\* vendor's lib.py nor the excluded mod.pyc.
C4_Witness ==
    /\ last_output.kind = "backup"
    /\ DOMAIN folder_tree_item_states = FS_DIRS
    /\ folder_tree_item_states[ProjRoot] = S_CHECKED
    /\ folder_tree_item_states[d_src] = S_CHECKED
    /\ folder_tree_item_states[d_vendor] = S_UNCHECKED
    /\ folder_tree_item_states[d_Docs] = S_CHECKED
    /\ folder_tree_item_states[d_build] = S_UNCHECKED
    /\ dynamic_global_excluded_filenames = {}
    /\ is_binary(d_src \o <<f_logo_png>>)
    /\ last_output.files =
          {ProjRoot \o <<f_notes_txt>>, d_src \o <<f_main_py>>,
           d_src \o <<f_logo_png>>, d_Docs \o <<f_guide_md>>}

\* The selection states after a complete scan that starts from the loaded
\* dictionary persisted_states.
RECURSIVE run_scan(_, _)
run_scan(r, states) ==
    IF r.pc = "done" THEN states
    ELSE LET res == scan_listing(r, states, dir_status[r.current_path])
         IN run_scan(res.r, res.states)

rescanned_states(persisted_states, project_root) ==
    run_scan([IdleWorker EXCEPT !.pc = "enter",
                                !.project_root = project_root,
                                !.persisted_states = persisted_states,
                                !.current_path = project_root],
             dict_put(EmptyDict, project_root,
                      root_initial_state(persisted_states, project_root)))

\* C5: saving the selection states and the dynamic exclusions and loading
\* them again for the same root, followed by the scan's seeding over the
\* same tree, gives every tracked path its effective selection back, and
\* the same dynamic exclusion set.
C5_SaveReloadRoundTrip ==
    LET cfg == config_to_save(folder_tree_item_states,
                              dynamic_global_excluded_filenames,
                              selected_root_var)
        reloaded == rescanned_states(
                        loaded_abs_folder_states(cfg, selected_root_var),
                        selected_root_var)
    IN /\ \A P \in DOMAIN folder_tree_item_states :
             effectively_selected_in(reloaded, P, selected_root_var)
                 = is_path_effectively_selected(P, selected_root_var)
       /\ Range(cfg.dynamic_file_exclusions)
             = dynamic_global_excluded_filenames

\* A second scan has reloaded what the first session saved: src/vendor is
\* Unchecked and build Checked before any click on the new tree, and the
\* pattern *.md is back.
C5_Witness ==
    /\ scans_started = 2
    /\ worker[2].pc = "done"
    /\ worker[2].outcome = "Completed"
    /\ tree = <<loading_entry>>
    /\ DOMAIN folder_tree_item_states = FS_DIRS
    /\ folder_tree_item_states[d_vendor] = S_UNCHECKED
    /\ folder_tree_item_states[d_build] = S_CHECKED
    /\ dynamic_global_excluded_filenames = {p_star_md}
    /\ config_file = config_to_save(folder_tree_item_states,
                                    dynamic_global_excluded_filenames,
                                    selected_root_var)

\* The config file holds the selection states and the dynamic exclusions.
config_is_current ==
    config_file = config_to_save(folder_tree_item_states,
                                 dynamic_global_excluded_filenames,
                                 selected_root_var)

\* C6: once a toggle, an exclusion edit or the completion of a scan has been
\* handled, the config file holds the selection states and the dynamic
\* exclusions as they then stand.
C6_ConfigWrittenAfterMutation ==
    [][(\/ \E D \in FS_DIRS :
              D \in DOMAIN folder_tree_item_states /\ on_tree_item_click(D)
        \/ \E pattern \in DynCandidates :
              /\ pattern \notin dynamic_global_excluded_filenames
              /\ add_excluded_filename(pattern)
        \/ \E to_remove \in SUBSET DynCandidates :
              /\ to_remove \cap dynamic_global_excluded_filenames # {}
              /\ remove_checked_from_popup(to_remove)
        \/ \E w \in Workers :
              /\ gui_queue # <<>>
              /\ Head(gui_queue) = populate_message(w)
              /\ worker[w].outcome = "Completed"
              /\ process_gui_queue)
          => config_is_current'
      ]_vars

\* C7: no step of a scan thread changes the selection states or the
\* dynamic exclusion set; they change in handlers of the GUI thread only.
C7_WorkersNeverWriteStore ==
    [][(\E w \in Workers : WorkerStep(w))
          => /\ folder_tree_item_states' = folder_tree_item_states
             /\ dynamic_global_excluded_filenames'
                   = dynamic_global_excluded_filenames
      ]_vars

\* The entries of kind k in the snapshot tree_data.
entries_of(tree_data, k) ==
    {i \in 1..Len(tree_data) : tree_data[i].kind = k}

\* C8: when the user answers a timeout request with "abort", the scan ends
\* as TimedOutAborted with the abort marker appended once, as the last
\* entry of the snapshot; the thread visits no directory afterwards: its
\* snapshot and the selection states stay as they are until the snapshot
\* is handed over.
C8_AbortEndsScanWithOneMarker ==
    [][\A w \in Workers :
          /\ (worker[w].pc = "wait" /\ worker'[w].declined)
             => /\ worker'[w].pc = "done"
                /\ worker'[w].outcome = "TimedOutAborted"
                /\ entries_of(worker'[w].tree_data, "timeout")
                      = {Len(worker'[w].tree_data)}
                /\ SubSeq(worker'[w].tree_data, 1, Len(worker[w].tree_data))
                      = worker[w].tree_data
                /\ Len(worker'[w].tree_data) = Len(worker[w].tree_data) + 1
                /\ folder_tree_item_states' = folder_tree_item_states
                /\ gui_queue' = Append(gui_queue, populate_message(w))
          /\ (worker[w].pc = "done" /\ worker[w].declined)
             => /\ worker'[w] = worker[w]
                /\ (gui_queue # <<>> /\ Head(gui_queue) = populate_message(w))
                   => folder_tree_item_states' = folder_tree_item_states
      ]_vars

\* The user declined after the root and build were emitted: the tree shows
\* these two rows and then the marker.
C8_Witness ==
    /\ worker[1].pc = "done"
    /\ worker[1].declined
    /\ worker[1].outcome = "TimedOutAborted"
    /\ worker[1].tree_data = <<dir_entry(NO_PARENT, ProjRoot),
                               dir_entry(ProjRoot, d_build),
                               timeout_entry>>
    /\ tree = worker[1].tree_data

\* The order in which a scan of the whole tree emits the directories:
\* depth first, siblings by lower-cased name (build, Docs, src).
expected_snapshot ==
    <<dir_entry(NO_PARENT, ProjRoot), dir_entry(ProjRoot, d_build),
      dir_entry(ProjRoot, d_Docs), dir_entry(ProjRoot, d_src),
      dir_entry(d_src, d_vendor)>>

\* C9: a scan over a readable tree whose timeout requests were all answered
\* "continue" completes with every directory exactly once in its snapshot,
\* in the depth-first, case-insensitively sorted order of a scan without
\* timeouts; while it runs its snapshot is a prefix of that order.
C9_ContinueKeepsScanOrder ==
    \A w \in Workers :
        (/\ \A d \in FS_DIRS : dir_status[d] = "ok"
         /\ ~worker[w].declined
         /\ worker[w].pc \in {"enter", "wait", "done"})
        => /\ Len(worker[w].tree_data) <= Len(expected_snapshot)
           /\ worker[w].tree_data
                 = SubSeq(expected_snapshot, 1, Len(worker[w].tree_data))
           /\ worker[w].pc = "done"
                 => /\ worker[w].outcome = "Completed"
                    /\ worker[w].tree_data = expected_snapshot

\* A scan that asked the user twice and was told to continue both times has
\* completed and its snapshot is on screen.
C9_Witness ==
    /\ \A d \in FS_DIRS : dir_status[d] = "ok"
    /\ worker[1].pc = "done"
    /\ worker[1].asked = 2
    /\ ~worker[1].declined
    /\ worker[1].outcome = "Completed"
    /\ worker[1].tree_data = expected_snapshot
    /\ tree = expected_snapshot

\* The directories a complete scan reaches: those below no directory whose
\* listing failed.
reached(d) ==
    \A n \in Len(ProjRoot)..(Len(d) - 1) :
        dir_status[SubSeq(d, 1, n)] = "ok"

\* C10: a listing that fails with permission-denied or not-found leaves one
\* error placeholder under its directory and does not end the scan: every
\* directory outside the unreadable subtrees is still emitted once and the
\* scan ends Completed. A scan ends as Failed only on another error and as
\* TimedOutAborted only on the user's abort.
C10_UnreadableDirectoryIsSkipped ==
    \A w \in Workers :
        worker[w].pc = "done"
        => /\ worker[w].outcome = "Failed"
                 => \E d \in FS_DIRS : dir_status[d] = "oserr"
           /\ worker[w].outcome = "TimedOutAborted" => worker[w].declined
           /\ (/\ ~worker[w].declined
               /\ \A d \in FS_DIRS : dir_status[d] # "oserr")
              => /\ worker[w].outcome = "Completed"
                 /\ \A D \in FS_DIRS :
                       /\ Cardinality({i \in entries_of(worker[w].tree_data, "dir") :
                              worker[w].tree_data[i].iid = D})
                             = IF reached(D) THEN 1 ELSE 0
                       /\ Cardinality({i \in entries_of(worker[w].tree_data, "error") :
                              worker[w].tree_data[i].parent = D})
                             = IF reached(D) /\ dir_status[D] = "denied"
                               THEN 1 ELSE 0

\* src could not be listed: its placeholder follows its row, vendor is
\* not reached, and build and Docs are scanned as usual.
C10_Witness ==
    /\ dir_status[d_src] = "denied"
    /\ dir_status[d_Docs] = "ok"
    /\ worker[1].pc = "done"
    /\ worker[1].outcome = "Completed"
    /\ worker[1].tree_data =
          <<dir_entry(NO_PARENT, ProjRoot), dir_entry(ProjRoot, d_build),
            dir_entry(ProjRoot, d_Docs), dir_entry(ProjRoot, d_src),
            error_entry(d_src, d_src)>>
    /\ tree = worker[1].tree_data

---------------------------------------------------------------------------
(* Seeding: the scan applied to any persisted dictionary.                  *)

\* The keys a persisted dictionary may hold: absolute and root-relative
\* paths; the empty tuple is the key ".".
SeedKeys == {ProjRoot, <<>>, d_src, <<n_src>>, d_build, <<n_build>>}

SeedDicts ==
    UNION {[K -> {S_CHECKED, S_UNCHECKED}] : K \in SUBSET SeedKeys}

\* The roots a scan is started on; the name of the second is in
\* EXCLUDED_FOLDERS.
SeedRoots == {ProjRoot, d_build}

\* A scan thread has returned from load_project_config with some
\* dictionary and is about to seed the root.
InitSeed ==
    /\ \E R \in SeedRoots : \E ps \in SeedDicts :
          worker = [w \in Workers |->
                       IF w = 1
                       THEN [IdleWorker EXCEPT !.pc = "root",
                                               !.project_root = R,
                                               !.persisted_states = ps]
                       ELSE IdleWorker]
    /\ folder_tree_item_states = EmptyDict
    /\ dynamic_global_excluded_filenames = {}
    /\ config_file = NoConfig
    /\ gui_queue = <<>>
    /\ scan_timeout_result_queue = <<>>
    /\ scans_started = 1
    /\ tree = <<loading_entry>>
    /\ tree_item_glyph = NoGlyphs
    /\ now = 0
    /\ file_status = [f \in FS_FILES |-> "ok"]
    /\ config_perm = PERM_RW
    /\ log_box = {}
    /\ selected_root_var = ProjRoot
    /\ gui_pc = "idle"
    /\ action_pc = NoActions
    /\ last_output = NoOutput
    /\ dir_status = [d \in FS_DIRS |-> "ok"]

NextSeed ==
    \/ \E w \in Workers : WorkerSeedRoot(w)
    \/ \E w \in Workers : WorkerEnter(w)
    \/ process_gui_queue

SpecSeed == InitSeed /\ [][NextSeed]_vars

\* The state the seeding rule of the specification gives directory D under
\* root R.
seeding_rule(persisted_states, D, R) ==
    IF D \in DOMAIN persisted_states THEN persisted_states[D]
    ELSE IF relative_to(D, R) \in DOMAIN persisted_states
    THEN persisted_states[relative_to(D, R)]
    ELSE IF path_name(D) \in EXCLUDED_FOLDERS THEN S_UNCHECKED
    ELSE S_CHECKED

\* C11: every directory a scan enters into the selection states, the root
\* included, gets the persisted state under its absolute path, else the one
\* under its root-relative path, else Unchecked if its name is a built-in
\* excluded folder name, else Checked.
C11_SeedingRule ==
    [][\A w \in Workers : \A D \in FS_DIRS :
          (/\ WorkerSeedRoot(w) \/ WorkerEnter(w)
           /\ D \notin DOMAIN folder_tree_item_states
           /\ D \in DOMAIN folder_tree_item_states')
          => folder_tree_item_states'[D]
                = seeding_rule(worker[w].persisted_states, D,
                               worker[w].project_root)
      ]_vars

\* The tracked rows of the tree.
tracked_rows ==
    {tree[i].iid : i \in 1..Len(tree)} \cap DOMAIN folder_tree_item_states

\* The projection the specification gives the tracked row D.
projection(D) ==
    IF \E A \in chain(D, selected_root_var) :
           dict_get(folder_tree_item_states, A, S_UNCHECKED) = S_UNCHECKED
    THEN GLYPH_UNCHECKED
    ELSE IF \A c \in get_children(tree, D) \cap DOMAIN folder_tree_item_states :
                folder_tree_item_states[c] = S_CHECKED
    THEN GLYPH_CHECKED
    ELSE GLYPH_TRISTATE

\* C12: every tracked row shows FullyUnchecked if it or one of its ancestors
\* up to the root is Unchecked, whatever its children; else FullyChecked if
\* it has no tracked child or all its tracked children are Checked; else
\* Mixed, also when none of its tracked children is Checked.
C12_ProjectorClassification ==
    \A D \in tracked_rows :
        /\ D \in DOMAIN tree_item_glyph
        /\ tree_item_glyph[D] = projection(D)

\* All three projections at once: vendor and build are clicked off, so the
\* root is Mixed with some children Checked, src is Mixed with none of its
\* children Checked, Docs has no child and is FullyChecked.
C12_Witness ==
    /\ tracked_rows = FS_DIRS
    /\ folder_tree_item_states[ProjRoot] = S_CHECKED
    /\ folder_tree_item_states[d_src] = S_CHECKED
    /\ folder_tree_item_states[d_vendor] = S_UNCHECKED
    /\ folder_tree_item_states[d_Docs] = S_CHECKED
    /\ folder_tree_item_states[d_build] = S_UNCHECKED
    /\ tree_item_glyph[ProjRoot] = GLYPH_TRISTATE
    /\ tree_item_glyph[d_src] = GLYPH_TRISTATE
    /\ tree_item_glyph[d_vendor] = GLYPH_UNCHECKED
    /\ tree_item_glyph[d_Docs] = GLYPH_CHECKED
    /\ tree_item_glyph[d_build] = GLYPH_UNCHECKED

\* File names the matcher is asked about.
f_foo_pyc == <<"f", "o", "o", ".", "p", "y", "c">>
f_foo_pyc_bak == <<"f", "o", "o", ".", "p", "y", "c", ".", "b", "a", "k">>
f_FOO_PYC == <<"F", "O", "O", ".", "P", "Y", "C">>
f_pyc == <<"p", "y", "c">>
f_dot_pyc == <<".", "p", "y", "c">>
f_package_lock == <<"p", "a", "c", "k", "a", "g", "e", "-", "l", "o", "c", "k", ".", "j", "s", "o", "n">>
f_xpackage_lock == <<"x", "p", "a", "c", "k", "a", "g", "e", "-", "l", "o", "c", "k", ".", "j", "s", "o", "n">>
f_package_lock_bak == <<"p", "a", "c", "k", "a", "g", "e", "-", "l", "o", "c", "k", ".", "j", "s", "o", "n", ".", "b", "a", "k">>
f_amain_py == <<"a", "m", "a", "i", "n", ".", "p", "y">>
f_guide_md_txt == <<"g", "u", "i", "d", "e", ".", "m", "d", ".", "t", "x", "t">>
f_readme_dot == <<"r", "e", "a", "d", "m", "e", ".">>
f_star_md == <<"*", ".", "m", "d">>

TestNames ==
    {f_main_py, f_mod_pyc, f_logo_png, f_guide_md, f_notes_txt,
     f_foo_pyc, f_foo_pyc_bak, f_FOO_PYC, f_pyc,
     f_dot_pyc, f_package_lock, f_xpackage_lock, f_package_lock_bak,
     f_amain_py, f_guide_md_txt, f_readme_dot, f_star_md}

\* Patterns a dynamic exclusion set may hold besides DynCandidates: the
\* empty pattern, a bare wildcard, a wildcard without dot.
p_empty == <<>>
p_star_dot == <<"*", ".">>
p_star_md_nodot == <<"*", "m", "d">>
p_star == <<"*">>

TestPatterns == DynCandidates \cup {p_empty, p_star_dot, p_star_md_nodot, p_star}

\* The selection states a first scan of the tree leaves: every directory
\* Checked but build, whose name is an excluded folder name.
scanned_states ==
    [d \in FS_DIRS |->
        IF path_name(d) \in EXCLUDED_FOLDERS THEN S_UNCHECKED ELSE S_CHECKED]

\* A session after its first scan, whose config held some set of dynamic
\* patterns.
InitMatch ==
    /\ dir_status = [d \in FS_DIRS |-> "ok"]
    /\ dynamic_global_excluded_filenames \in SUBSET TestPatterns
    /\ folder_tree_item_states = scanned_states
    /\ config_file = config_to_save(scanned_states,
                                    dynamic_global_excluded_filenames, ProjRoot)
    /\ gui_queue = <<>>
    /\ scan_timeout_result_queue = <<>>
    /\ worker = [w \in Workers |->
                    IF w = 1
                    THEN finished(IdleWorker, "Completed", expected_snapshot)
                    ELSE IdleWorker]
    /\ scans_started = 1
    /\ tree = expected_snapshot
    /\ tree_item_glyph = refresh_tree_visuals(expected_snapshot, scanned_states,
                                              ProjRoot, NoGlyphs)
    /\ now = 0
    /\ file_status = [f \in FS_FILES |-> "ok"]
    /\ config_perm = PERM_RW
    /\ log_box = {}
    /\ selected_root_var = ProjRoot
    /\ gui_pc = "idle"
    /\ action_pc = NoActions
    /\ last_output = NoOutput

\* The user edits the dynamic patterns and runs one export or backup.
NextMatch ==
    \/ \E pattern \in DynCandidates :
          SessionOpen /\ add_excluded_filename(pattern)
    \/ \E to_remove \in SUBSET DynCandidates :
          SessionOpen /\ remove_checked_from_popup(to_remove)
    \/ \E kind \in ActionKinds : SessionOpen /\ run_threaded_action(kind)
    \/ \E t \in ActionThreads : ActionImpl(t)
    \/ \E t \in ActionThreads : ActionSave(t)

SpecMatch == InitMatch /\ [][NextMatch]_vars

\* The matching rule of the specification for one pattern: a pattern that
\* starts with "*." matches the names that end with the pattern minus its
\* "*"; any other pattern matches the name equal to it.
pattern_matches(pattern, name) ==
    LET wildcard == Len(pattern) >= 2 /\ pattern[1] = "*" /\ pattern[2] = "."
        suffix == [i \in 1..(Len(pattern) - 1) |-> pattern[i + 1]]
    IN /\ Len(pattern) > 0
       /\ IF wildcard
          THEN /\ Len(name) >= Len(suffix)
               /\ \A i \in 1..Len(suffix) :
                     name[Len(name) - Len(suffix) + i] = suffix[i]
          ELSE /\ Len(name) = Len(pattern)
               /\ \A i \in 1..Len(name) : name[i] = pattern[i]

\* C13: should_exclude_file(name) is true exactly when some non-empty
\* built-in or dynamic pattern matches name, a "*." pattern by its suffix,
\* case-sensitively, any other pattern by equality; "foo.pyc" is excluded
\* by "*.pyc", "foo.pyc.bak" is not, and "package-lock.json" excludes only
\* that name.
C13_ExclusionMatcher ==
    /\ \A name \in TestNames :
          /\ should_exclude_file(name) <=>
                \E pattern \in PREDEFINED_EXCLUDED_FILENAMES
                                  \cup dynamic_global_excluded_filenames :
                    pattern_matches(pattern, name)
          /\ \A pattern \in TestPatterns :
                excluded_by({pattern}, name) <=>
                    \E q \in PREDEFINED_EXCLUDED_FILENAMES \cup {pattern} :
                        pattern_matches(q, name)
    /\ excluded_by({}, f_foo_pyc)
    /\ ~excluded_by({}, f_foo_pyc_bak)
    /\ ~excluded_by({}, f_FOO_PYC)
    /\ {name \in TestNames : excluded_by({}, name)}
          = {f_mod_pyc, f_foo_pyc, f_dot_pyc, f_package_lock}

\* With the dynamic pattern "*.md" a backup of the whole tree leaves
\* guide.md and mod.pyc out, while guide.md.txt would not be matched.
C13_Witness ==
    /\ dynamic_global_excluded_filenames = {p_star_md}
    /\ should_exclude_file(f_guide_md)
    /\ should_exclude_file(f_foo_pyc)
    /\ ~should_exclude_file(f_guide_md_txt)
    /\ ~should_exclude_file(f_foo_pyc_bak)
    /\ last_output.kind = "backup"
    /\ is_path_effectively_selected(d_Docs, selected_root_var)
    /\ d_Docs \o <<f_guide_md>> \notin last_output.files
    /\ d_src \o <<f_main_py>> \in last_output.files

---------------------------------------------------------------------------
(* Backups of either project.                                              *)

ArchiveRoots == {ProjRoot, LongRoot}

\* A session after the first scan of one of the two projects.
InitArchive ==
    /\ selected_root_var \in ArchiveRoots
    /\ dir_status = [d \in FS_DIRS \cup {LongRoot} |-> "ok"]
    /\ folder_tree_item_states =
          IF selected_root_var = ProjRoot THEN scanned_states
          ELSE dict_put(EmptyDict, LongRoot, S_CHECKED)
    /\ tree = IF selected_root_var = ProjRoot THEN expected_snapshot
              ELSE <<dir_entry(NO_PARENT, LongRoot)>>
    /\ tree_item_glyph = refresh_tree_visuals(tree, folder_tree_item_states,
                                              selected_root_var, NoGlyphs)
    /\ worker = [w \in Workers |->
                    IF w = 1
                    THEN finished([IdleWorker EXCEPT
                                      !.project_root = selected_root_var],
                                  "Completed", tree)
                    ELSE IdleWorker]
    /\ config_file = config_to_save(folder_tree_item_states, {},
                                    selected_root_var)
    /\ dynamic_global_excluded_filenames = {}
    /\ gui_queue = <<>>
    /\ scan_timeout_result_queue = <<>>
    /\ scans_started = 1
    /\ now = 0
    /\ file_status = [f \in FS_FILES |-> "ok"]
    /\ config_perm = PERM_RW
    /\ log_box = {}
    /\ gui_pc = "idle"
    /\ action_pc = NoActions
    /\ last_output = NoOutput

\* The user toggles rows, may exclude a pattern, and runs one export or
\* backup.
NextArchive ==
    \/ \E i \in 1..Len(tree) : SessionOpen /\ on_tree_item_click(tree[i].iid)
    \/ \E pattern \in DynCandidates :
          SessionOpen /\ add_excluded_filename(pattern)
    \/ \E kind \in ActionKinds : SessionOpen /\ run_threaded_action(kind)
    \/ \E t \in ActionThreads : ActionImpl(t)
    \/ \E t \in ActionThreads : ActionSave(t)

SpecArchive == InitArchive /\ [][NextArchive]_vars

\* C14: when a backup run has ended with no file added, the archive file
\* it created is no longer on disk.
C14_EmptyArchiveRemoved ==
    (/\ last_output.kind = "backup"
     /\ last_output.files = {})
    => ~last_output.written

---------------------------------------------------------------------------
(* Clicks on rows that carry no selection state.                           *)

\* One scan, with listing faults and the time budget, and the user clicking
\* whatever row the tree shows.
NextClick ==
    \/ scans_started = 0 /\ validate_and_refresh_project_root
    \/ validate_save
    \/ \E w \in Workers : WorkerStep(w)
    \/ process_gui_queue
    \/ Tick
    \/ \E i \in 1..Len(tree) : on_tree_item_click(tree[i].iid)

SpecClick == InitScan /\ [][NextClick]_vars

\* The rows of the tree without an entry in folder_tree_item_states.
untracked_rows ==
    {tree[i].iid : i \in 1..Len(tree)} \ DOMAIN folder_tree_item_states

\* C15: a click on a row that has no entry in folder_tree_item_states (an
\* error placeholder, the abort marker, the loading node) changes no entry
\* of folder_tree_item_states and adds none.
C15_UntrackedClickIgnored ==
    [][\A item_id \in untracked_rows :
           on_tree_item_click(item_id)
               => folder_tree_item_states' = folder_tree_item_states]_vars

\* The warning of an ignored click has been logged on a tree that shows an
\* error placeholder and the abort marker next to tracked rows.
C15_Witness ==
    /\ LOG_NOT_TRACKED \in log_box
    /\ tree_exists(tree, timeout_entry.iid)
    /\ \E d \in FS_DIRS :
          tree_exists(tree, error_entry(d, d).iid)
    /\ untracked_rows # {}
    /\ folder_tree_item_states # EmptyDict

---------------------------------------------------------------------------
(* Threads: the user events as the handlers take them, whatever is still   *)
(* at work.                                                                *)

\* The user validates the root while no export or backup runs, and presses
\* the action buttons while no scan runs and until the first artifact is
\* there; the threads run as they are scheduled.
NextThreads ==
    \/ action_pc = NoActions /\ validate_and_refresh_project_root
    \/ validate_save
    \/ \E w \in Workers : WorkerRun(w)
    \/ process_gui_queue
    \/ \E kind \in ActionKinds :
          /\ ScanQuiet
          /\ last_output = NoOutput
          /\ run_threaded_action(kind)
    \/ \E t \in ActionThreads : ActionImpl(t)
    \/ \E t \in ActionThreads : ActionSave(t)

SpecThreads == Init /\ [][NextThreads]_vars

\* The scan threads of project_root that have started and not ended.
active_scan_workers(project_root) ==
    {w \in Workers : /\ worker[w].pc \notin {"idle", "done"}
                     /\ worker[w].project_root = project_root}

\* The export and backup threads that have started and not ended.
active_action_workers == {t \in ActionThreads : action_pc[t] # "idle"}

\* C16: at every moment at most one scan worker is active for a given
\* project root and at most one export/backup worker is active.
C16_OneWorkerOfAKind ==
    /\ \A project_root \in AllDirs :
          Cardinality(active_scan_workers(project_root)) <= 1
    /\ Cardinality(active_action_workers) <= 1

\* C17: every write of the config file is performed by the GUI thread (and
\* so no two writes overlap): no step of an export or backup thread changes
\* the config file.
C17_ConfigWrittenByCoordinator ==
    [][(\E t \in ActionThreads : ActionSave(t))
          => config_file' = config_file
      ]_vars

---------------------------------------------------------------------------
(* Files that cannot be read.                                              *)

\* The files whose open() may raise.
FaultyFiles ==
    {ProjRoot \o <<f_notes_txt>>, d_src \o <<f_main_py>>,
     d_Docs \o <<f_guide_md>>}

\* A session after a completed scan of the project, some files of which
\* cannot be read.
InitIO ==
    /\ file_status \in {s \in [FS_FILES -> {"ok", "ioerr"}] :
                            \A f \in FS_FILES \ FaultyFiles : s[f] = "ok"}
    /\ selected_root_var = ProjRoot
    /\ dir_status = [d \in FS_DIRS |-> "ok"]
    /\ folder_tree_item_states = scanned_states
    /\ tree = expected_snapshot
    /\ tree_item_glyph = refresh_tree_visuals(tree, folder_tree_item_states,
                                              selected_root_var, NoGlyphs)
    /\ worker = [w \in Workers |->
                    IF w = 1
                    THEN finished([IdleWorker EXCEPT
                                      !.project_root = selected_root_var],
                                  "Completed", tree)
                    ELSE IdleWorker]
    /\ config_file = NoConfig
    /\ dynamic_global_excluded_filenames = {}
    /\ gui_queue = <<>>
    /\ scan_timeout_result_queue = <<>>
    /\ scans_started = 1
    /\ now = 0
    /\ config_perm = PERM_RW
    /\ log_box = {}
    /\ gui_pc = "idle"
    /\ action_pc = NoActions
    /\ last_output = NoOutput

SpecIO == InitIO /\ [][NextArchive]_vars

\* The files of last_output's kind of run that are included: under an
\* effectively selected directory and not excluded by name.
included_files ==
    IF last_output.kind = "dump" THEN dump_sections(selected_root_var)
    ELSE backup_files(selected_root_var)

\* C18: a file that cannot be read during a dump or a backup is recorded as
\* an omission, and every other included file is still processed: the
\* dump gives every included file a section, the archive holds every
\* included file that can be read.
C18_FileErrorConfined ==
    last_output.kind \in {"dump", "backup"}
        => /\ \A f \in included_files :
                 read_fails(f) => f \in last_output.omitted
           /\ IF last_output.kind = "dump"
              THEN last_output.files = included_files
              ELSE last_output.files
                       = {f \in included_files : ~read_fails(f)}

---------------------------------------------------------------------------
(* A config file that cannot be read, parsed or written.                   *)

\* A document of an earlier session.
saved_config ==
    config_to_save(dict_put(dict_put(EmptyDict, ProjRoot, S_CHECKED),
                            d_src, S_UNCHECKED),
                   {p_main_py}, ProjRoot)

\* The config file the application may find: none, the document, the
\* document cut short, and the document with a byte that is no UTF-8.
ConfigFiles ==
    {NoConfig, saved_config,
     [saved_config EXCEPT !.form = FORM_MALFORMED],
     [saved_config EXCEPT !.form = FORM_UNDECODABLE]}

InitConfig ==
    /\ folder_tree_item_states = EmptyDict
    /\ dynamic_global_excluded_filenames = {}
    /\ config_file \in ConfigFiles
    /\ config_perm \in {PERM_RW, PERM_READ, PERM_NONE}
    /\ gui_queue = <<>>
    /\ scan_timeout_result_queue = <<>>
    /\ worker = [w \in Workers |-> IdleWorker]
    /\ scans_started = 0
    /\ tree = <<>>
    /\ tree_item_glyph = NoGlyphs
    /\ now = 0
    /\ dir_status = [d \in FS_DIRS |-> "ok"]
    /\ file_status = [f \in FS_FILES |-> "ok"]
    /\ log_box = {}
    /\ selected_root_var = ProjRoot
    /\ gui_pc = "idle"
    /\ action_pc = NoActions
    /\ last_output = NoOutput

\* One scan at a time on a readable tree, exclusion edits, and one export
\* or backup.
NextConfig ==
    \/ SessionOpen /\ ScanQuiet /\ validate_and_refresh_project_root
    \/ validate_save
    \/ \E w \in Workers : WorkerRun(w)
    \/ process_gui_queue
    \/ \E pattern \in DynCandidates :
          SessionOpen /\ add_excluded_filename(pattern)
    \/ \E kind \in ActionKinds : SessionOpen /\ run_threaded_action(kind)
    \/ \E t \in ActionThreads : ActionImpl(t)
    \/ \E t \in ActionThreads : ActionSave(t)

SpecConfig == InitConfig /\ [][NextConfig]_vars

\* The config file is there and cannot be read or parsed.
config_unreadable ==
    /\ config_file.exists
    /\ config_perm = PERM_NONE \/ config_file.form # FORM_OBJECT

\* C19: a scan that finds the config unreadable or unparsable goes on with
\* an empty persisted dictionary and an empty dynamic exclusion set, and on
\* a readable tree every scan ends Completed; a handler whose config write
\* fails still completes, and the selection states and the exclusion set
\* are what they would be had the write succeeded.
C19_ConfigFaultTolerated ==
    [][/\ \A w \in Workers :
             (config_unreadable /\ WorkerLoadRead(w))
                 => /\ worker'[w].pc = "root"
                    /\ worker'[w].persisted_states = EmptyDict
                    /\ dynamic_global_excluded_filenames' = {}
       /\ \A w \in Workers :
             worker'[w].pc = "done" => worker'[w].outcome = "Completed"
       /\ (config_perm # PERM_RW /\ validate_save)
             => /\ gui_pc' = "idle"
                /\ folder_tree_item_states' = folder_tree_item_states
                /\ dynamic_global_excluded_filenames'
                      = dynamic_global_excluded_filenames
       /\ \A t \in ActionThreads :
             (config_perm # PERM_RW /\ ActionSave(t))
                 => /\ action_pc'[t] = "idle"
                    /\ folder_tree_item_states' = folder_tree_item_states
                    /\ dynamic_global_excluded_filenames'
                          = dynamic_global_excluded_filenames
       /\ \A pattern \in DynCandidates :
             (config_perm # PERM_RW /\ add_excluded_filename(pattern))
                 => /\ folder_tree_item_states' = folder_tree_item_states
                    /\ dynamic_global_excluded_filenames'
                          = dynamic_global_excluded_filenames \cup {pattern}
      ]_vars

---------------------------------------------------------------------------
(* The confirmation requests of a scan.                                    *)

\* The scan threads blocked in scan_timeout_result_queue.get().
waiting_workers == {w \in Workers : worker[w].pc = "wait"}

\* The requests posted and not yet shown.
pending_requests == {i \in 1..Len(gui_queue) : gui_queue[i].cb = "ask"}

\* C20: every confirmation request of a scan worker gets exactly one answer
\* on scan_timeout_result_queue: each waiting worker has either its request
\* still in gui_queue or its one answer in the queue, the callback of a
\* request puts one answer, and that answer is False ("abort") when the
\* dialog fails.
C20_OneAnswerPerRequest ==
    [][/\ Cardinality(waiting_workers)' =
             Cardinality(pending_requests)' + Len(scan_timeout_result_queue')
       /\ (/\ gui_queue # <<>>
           /\ Head(gui_queue).cb = "ask"
           /\ process_gui_queue)
             => Len(scan_timeout_result_queue')
                   = Len(scan_timeout_result_queue) + 1
       /\ (/\ gui_queue # <<>>
           /\ Head(gui_queue).cb = "ask"
           /\ process_gui_queue
           /\ show_messagebox_and_get_result("error"))
             => scan_timeout_result_queue'
                   = Append(scan_timeout_result_queue, FALSE)
      ]_vars

\* A worker has asked a second time and its answer, "abort", is in the
\* queue for it.
C20_Witness ==
    /\ worker[1].pc = "wait"
    /\ worker[1].asked = 2
    /\ pending_requests = {}
    /\ scan_timeout_result_queue = <<FALSE>>

---------------------------------------------------------------------------
(* The worker's wait for the user's decision.                              *)

\* The positions of a scan thread from which it goes on by itself.
RunningPcs == {"start", "load", "read", "root", "enter"}

\* C21: a worker that finds the budget exceeded posts one request and is
\* blocked until an answer is in scan_timeout_result_queue: the step that
\* posts the request leaves the snapshot and the selection states as they
\* are, a worker that stays waiting changes neither, a waiting worker moves
\* on only by taking the answer at the head of scan_timeout_result_queue,
\* and a worker anywhere else in its run never reads that queue.
C21_WorkerBlocksOnlyForAnswer ==
    [][\A w \in Workers :
          /\ (worker[w].pc = "enter" /\ worker'[w].pc = "wait")
                => /\ gui_queue' = Append(gui_queue, ask_message(w))
                   /\ worker'[w].asked = worker[w].asked + 1
                   /\ worker'[w].tree_data = worker[w].tree_data
                   /\ folder_tree_item_states' = folder_tree_item_states
          /\ (worker[w].pc = "wait" /\ worker'[w].pc = "wait")
                => /\ worker'[w] = worker[w]
                   /\ folder_tree_item_states' = folder_tree_item_states
          /\ (worker[w].pc = "wait" /\ worker'[w].pc # "wait")
                => /\ scan_timeout_result_queue # <<>>
                   /\ scan_timeout_result_queue'
                         = Tail(scan_timeout_result_queue)
          /\ (worker[w].pc \in RunningPcs /\ worker'[w] # worker[w])
                => scan_timeout_result_queue' = scan_timeout_result_queue
      ]_vars


\* A worker has collected entries, asked, and waits while time passes; no
\* answer has been given yet.
C21_Witness ==
    /\ worker[1].pc = "wait"
    /\ worker[1].asked = 1
    /\ Len(worker[1].tree_data) >= 2
    /\ now - worker[1].start_time > 2 * MAX_SCAN_TIME_SECONDS
    /\ gui_queue = <<ask_message(1)>>
    /\ scan_timeout_result_queue = <<>>

\* C22: after the answer "continue" the scan clock restarts: the step that
\* takes the answer and goes on scanning sets start_time to the time of that
\* step, no other step of a scan that goes on moves start_time, and a request
\* is posted only when more than MAX_SCAN_TIME_SECONDS have passed since
\* start_time.
C22_ClockRestartsOnContinue ==
    [][\A w \in Workers :
          /\ (worker[w].pc = "wait" /\ worker'[w].pc = "enter")
                => worker'[w].start_time = now
          /\ (worker[w].pc \in {"load", "read", "root", "enter"}
                 /\ worker'[w].pc \in {"read", "root", "enter", "wait"})
                => worker'[w].start_time = worker[w].start_time
          /\ (worker[w].pc = "enter" /\ worker'[w].pc = "wait")
                => now - worker[w].start_time > MAX_SCAN_TIME_SECONDS
      ]_vars

\* A second request: the first was answered with "continue" at a time after
\* the start of the scan, and more than the budget has passed since.
C22_Witness ==
    /\ worker[1].pc = "wait"
    /\ worker[1].asked = 2
    /\ worker[1].start_time > MAX_SCAN_TIME_SECONDS
    /\ now - worker[1].start_time > MAX_SCAN_TIME_SECONDS
    /\ now < 2 * MAX_SCAN_TIME_SECONDS + worker[1].start_time

---------------------------------------------------------------------------
(* Termination of a scan.                                                  *)

\* The scan thread w can take a step: it is running, or it waits and an
\* answer is in scan_timeout_result_queue.
worker_ready(w) ==
    \/ worker[w].pc \in RunningPcs
    \/ worker[w].pc = "wait" /\ scan_timeout_result_queue # <<>>

\* The scheduler runs a thread that can run: weak fairness of WorkerStep(w),
\* with ENABLED <<WorkerStep(w)>>_vars written out as worker_ready(w).
worker_thread_runs(w) ==
    \/ []<>(~worker_ready(w))
    \/ []<><<WorkerStep(w)>>_vars

\* The coordinator is between two handlers and a callback is queued.
gui_ready == gui_pc = "idle" /\ gui_queue # <<>>

\* root.after(100, process_gui_queue) keeps draining gui_queue, and the user
\* answers each dialog: weak fairness of process_gui_queue, with its
\* enabling condition written out as gui_ready.
coordinator_drains ==
    \/ []<>(~gui_ready)
    \/ []<><<process_gui_queue>>_vars

\* The scan protocol with a coordinator that finishes its handler, drains
\* gui_queue and answers each dialog, and worker threads that the scheduler
\* keeps running.
SpecScanFair ==
    /\ SpecScan
    /\ WF_vars(validate_save)
    /\ coordinator_drains
    /\ \A w \in Workers : worker_thread_runs(w)

Outcomes == {"Completed", "TimedOutAborted", "Failed"}

\* The messages of kind cb that worker w has in gui_queue.
posted(q, cb, w) == Len(SelectSeq(q, LAMBDA m : m = [cb |-> cb, w |-> w]))

\* C23: every started scan ends: the worker reaches done with one of the
\* three outcomes; the step that ends the scan posts its one populate
\* message, no other step of the worker posts one, and a worker that has
\* ended changes nothing of its snapshot and posts nothing until the next
\* scan is started.
C23_ScanTerminates ==
    /\ \A w \in Workers :
          (worker[w].pc = "start")
              ~> (worker[w].pc = "done" /\ worker[w].outcome \in Outcomes)
    /\ [][\A w \in Workers :
            /\ (worker[w].pc \in RunningPcs \cup {"wait"}
                   /\ worker'[w].pc = "done")
                  => gui_queue' = Append(gui_queue, populate_message(w))
            /\ (worker[w].pc \in RunningPcs \cup {"wait"}
                   /\ worker'[w].pc # "done")
                  => posted(gui_queue', "populate", w)
                        <= posted(gui_queue, "populate", w)
            /\ (worker[w].pc = "done" /\ worker'[w].pc = "done")
                  => /\ worker'[w] = worker[w]
                     /\ posted(gui_queue', "populate", w)
                           <= posted(gui_queue, "populate", w)
                     /\ posted(gui_queue', "ask", w)
                           <= posted(gui_queue, "ask", w)
            /\ posted(gui_queue, "populate", w) <= 1
       ]_vars

\* A scan that asked, was told to stop, ended TimedOutAborted, and whose
\* snapshot, abort marker last, the coordinator has put on display.
C23_Witness ==
    /\ worker[1].pc = "done"
    /\ worker[1].outcome = "TimedOutAborted"
    /\ worker[1].asked >= 1
    /\ Len(worker[1].tree_data) >= 3
    /\ gui_queue = <<>>
    /\ scan_timeout_result_queue = <<>>
    /\ tree_exists(tree, timeout_entry.iid)

---------------------------------------------------------------------------
(* The display and the selection states.                                   *)

\* C24: whenever the coordinator has put a scan's snapshot on display, every
\* directory row of the display has a state in folder_tree_item_states.
C24_DisplayedDirectoriesHaveState ==
    \A i \in 1..Len(tree) :
        tree[i].kind = "dir" => tree[i].iid \in DOMAIN folder_tree_item_states

\* A click has flipped the state of a tracked row.
toggle_handled ==
    \E D \in DOMAIN folder_tree_item_states \cap DOMAIN folder_tree_item_states' :
        /\ folder_tree_item_states'[D] # folder_tree_item_states[D]
        /\ worker' = worker

\* The coordinator has run the _populate_tree_on_main_thread at the head of
\* gui_queue.
populate_handled ==
    /\ gui_queue # <<>>
    /\ Head(gui_queue).cb = "populate"
    /\ gui_queue' = Tail(gui_queue)

\* C25: right after a click that toggles a row, and right after the
\* coordinator has handled a scan's populate message, every tracked row
\* shows the glyph that the projection from the project root gives for the
\* selection states as they then are.
C25_GlyphsFollowStore ==
    [][(toggle_handled \/ populate_handled)
          => \A D \in tracked_rows' :
                /\ D \in DOMAIN tree_item_glyph'
                /\ tree_item_glyph'[D] = projection(D)']_vars

\* An aborted scan is on display, vendor has been clicked off, and src shows
\* Mixed.
C25_Witness ==
    /\ worker[1].outcome = "TimedOutAborted"
    /\ tree_exists(tree, timeout_entry.iid)
    /\ d_vendor \in tracked_rows
    /\ folder_tree_item_states[d_vendor] = S_UNCHECKED
    /\ folder_tree_item_states[d_src] = S_CHECKED
    /\ folder_tree_item_states[ProjRoot] = S_CHECKED
    /\ tree_item_glyph[d_vendor] = GLYPH_UNCHECKED
    /\ tree_item_glyph[d_src] = GLYPH_TRISTATE

---------------------------------------------------------------------------
(* Rescans and changes of the project root.                                *)

\* The directories a scan's snapshot holds.
snapshot_dirs(tree_data) ==
    {tree_data[i].iid : i \in {j \in 1..Len(tree_data) :
                                  tree_data[j].kind = "dir"}}

\* C26: a rescan of the same root, however it ends, removes no entry of
\* folder_tree_item_states: once the second scan of the root has ended,
\* every directory the first scan had given a state still has one.
C26_RescanKeepsEntries ==
    (/\ worker[2].pc = "done"
     /\ worker[1].pc = "done"
     /\ worker[2].project_root = worker[1].project_root)
        => snapshot_dirs(worker[1].tree_data)
              \subseteq DOMAIN folder_tree_item_states

\* The config file found under src when src is made the project root: vendor
\* was unchecked there and *.md excluded.
SrcConfig ==
    [exists |-> TRUE, form |-> FORM_OBJECT,
     folder_states |-> (<<n_vendor>> :> S_UNCHECKED),
     dynamic_file_exclusions |-> <<p_star_md>>]

\* _on_choose_project_directory: the chosen directory is put into
\* selected_root_var and validate_and_refresh_project_root is called.
\* config_file stands for the file get_project_config_file_path gives for
\* the root in selected_root_var, so it is now the file found under new_dir.
on_choose_project_directory(new_dir, found) ==
    /\ gui_pc = "idle"
    /\ scans_started < MaxScans
    /\ new_dir \in AllDirs
    /\ new_dir # selected_root_var
    /\ selected_root_var' = new_dir
    /\ config_file' = found
    /\ scans_started' = scans_started + 1
    /\ refresh_folder_tree_threaded(scans_started + 1, new_dir)
    /\ gui_pc' = "save"
    /\ UNCHANGED <<folder_tree_item_states, dynamic_global_excluded_filenames,
                   gui_queue, scan_timeout_result_queue, now, dir_status,
                   file_status, config_perm, log_box, action_pc, last_output>>

\* A first scan of the project; the user clicks rows and adds patterns, then
\* either validates the same root again with vendor unchecked, or chooses
\* src, which has a config file of its own, as the project root.
NextRoots ==
    \/ scans_started = 0 /\ validate_and_refresh_project_root
    \/ validate_save
    \/ \E w \in Workers : WorkerRun(w)
    \/ process_gui_queue
    \/ \E i \in 1..Len(tree) :
          /\ ScanQuiet
          /\ scans_started = 1
          /\ on_tree_item_click(tree[i].iid)
    \/ \E pattern \in DynCandidates :
          /\ ScanQuiet
          /\ scans_started = 1
          /\ add_excluded_filename(pattern)
    \/ /\ ScanQuiet
       /\ scans_started = 1
       /\ d_vendor \in DOMAIN folder_tree_item_states
       /\ folder_tree_item_states[d_vendor] = S_UNCHECKED
       /\ validate_and_refresh_project_root
    \/ /\ ScanQuiet
       /\ scans_started = 1
       /\ on_choose_project_directory(d_src, SrcConfig)

SpecRoots == Init /\ [][NextRoots]_vars

\* C27: when the project root is changed to a directory with a config file
\* of its own, that file is as it was found until the scan has read it, and
\* the scan goes on with the states and the patterns of that file.
C27_NewRootSeedsFromOwnConfig ==
    \A w \in Workers :
        worker[w].project_root = d_src =>
            /\ worker[w].pc \in {"start", "load", "read"}
                  => config_file = SrcConfig
            /\ worker[w].pc \in {"root", "enter"}
                  => /\ worker[w].persisted_states
                           = loaded_abs_folder_states(SrcConfig, d_src)
                     /\ dynamic_global_excluded_filenames
                           = Range(SrcConfig.dynamic_file_exclusions)

\* C28: a rescan of the current root, started with vendor unchecked, seeds
\* vendor Unchecked whatever the order of the coordinator's save and the
\* worker's clear and load.
C28_RescanKeepsUnchecked ==
    \A w \in Workers :
        (/\ w = 2
         /\ worker[w].project_root = ProjRoot
         /\ d_vendor \in snapshot_dirs(worker[w].tree_data))
            => /\ d_vendor \in DOMAIN folder_tree_item_states
               /\ folder_tree_item_states[d_vendor] = S_UNCHECKED

---------------------------------------------------------------------------
(* Two scans at once.                                                      *)

\* The root is validated twice with nothing to keep the second scan from
\* starting while the first runs; once both have started, time passes until
\* both are over budget.
NextTwoScans ==
    \/ validate_and_refresh_project_root
    \/ validate_save
    \/ \E w \in Workers : WorkerStep(w)
    \/ process_gui_queue
    \/ scans_started = MaxScans /\ now < OverlapTime /\ Tick

SpecTwoScans == Init /\ [][NextTwoScans]_vars

\* C29: a waiting worker goes on only with the answer to its own request:
\* when it leaves the wait, the coordinator has handled its request.
C29_AnswerGoesToAsker ==
    [][\A w \in Workers :
          (worker[w].pc = "wait" /\ worker'[w].pc # "wait")
              => posted(gui_queue, "ask", w) = 0]_vars

---------------------------------------------------------------------------
(* The display and the consumers agree.                                    *)

\* C30: a tracked directory row shows the unchecked glyph exactly when
\* is_path_effectively_selected is false for it under the project root.
C30_UncheckedGlyphIffNotSelected ==
    \A D \in tracked_rows :
        /\ D \in DOMAIN tree_item_glyph
        /\ (tree_item_glyph[D] = GLYPH_UNCHECKED)
              <=> ~is_path_effectively_selected(D, selected_root_var)

\* src has been clicked off and vendor below it is still Checked: vendor
\* shows the unchecked glyph and is not effectively selected, while Docs
\* shows the checked glyph and is.
C30_Witness ==
    /\ tracked_rows = FS_DIRS
    /\ folder_tree_item_states[d_src] = S_UNCHECKED
    /\ folder_tree_item_states[d_vendor] = S_CHECKED
    /\ folder_tree_item_states[ProjRoot] = S_CHECKED
    /\ folder_tree_item_states[d_Docs] = S_CHECKED
    /\ tree_item_glyph[d_vendor] = GLYPH_UNCHECKED
    /\ ~is_path_effectively_selected(d_vendor, selected_root_var)
    /\ tree_item_glyph[d_Docs] = GLYPH_CHECKED
    /\ is_path_effectively_selected(d_Docs, selected_root_var)
    /\ tree_item_glyph[ProjRoot] = GLYPH_TRISTATE

====
